---- MODULE Spec2Model ----
(***************************************************************************)
(* Tibbar: resource reserver (tibbar/core/resource.py), round-robin funnel  *)
(* (tibbar/core/funnels.py), memory store (tibbar/core/memory_store.py)    *)
(* and the main loop of Tibbar.create_test (tibbar/core/tibbar.py).        *)
(*                                                                         *)
(* An optional value (None or v) is <<>> or <<v>>.                         *)
(*                                                                         *)
(* A ResourceId is the pair <<namespace, identifier>>.  A request entry is *)
(* <<"id", namespace, identifier>> for a ResourceId and                    *)
(* <<"slot", namespace, count>> for a ResourceSlot.  A requests dict is a  *)
(* record [exclusive |-> list, shared |-> list]; a missing key is the      *)
(* empty list, as requests.get(kind, []) reads it.                         *)
(***************************************************************************)
EXTENDS Integers, Sequences, FiniteSets, TLC

VARIABLES
    all_resources,     \* Reserver._all_resources
    unassigned,        \* Reserver._unassigned
    exclusive,         \* Reserver._exclusive: dict sequence id -> frozenset
    shared,            \* Reserver._shared: dict sequence id -> frozenset
    shared_refcount,   \* Reserver._shared_refcount: dict ResourceId -> int
    ret,               \* the last Reserver call and what it returned
    producers,         \* FunnelBase._seqs: the producers added to the funnel
    has_reserver,      \* RoundRobinFunnel._reserver is not None
    sequence_id_counter, \* RoundRobinFunnel._sequence_id_counter
    active,            \* gen: the list active
    idx,               \* gen: idx
    progressed,        \* gen: progressed
    todo,              \* gen: iterations left of "for _ in range(rounds)"
    status,            \* gen: running, done, or the error it raised
    reservation_claim, \* producer.reservation_claim, per producer
    attempts,          \* reserver.request calls made for each producer
    yielded,           \* the items gen has yielded (yield item), in order
    released,          \* reserver.release calls made by _gen_with_release, per sequence id
    suspended,         \* gen is not yet started or is suspended at "yield item"
    code_regions,      \* MemoryStore._code_regions: list of (lo, hi)
    data_regions,      \* MemoryStore._data_regions
    data_next,         \* MemoryStore._data_next
    gen_store,         \* MemoryStore._gen_store: dict addr -> byte_size of the item
    live_memory,       \* MemoryStore._live_memory: dict addr -> byte
    used_ranges,       \* MemoryStore._used_ranges: sorted, merged list of (start, end)
    store_ret,         \* the last MemoryStore call and how it ended
    calls,             \* MemoryStore calls made so far
    data_segments,     \* AddressMapper.data_segments, as pairs (base, hi)
    pc,                \* Tibbar._pc
    loop_status,       \* create_test: not called, running, how it returned or what it raised
    exit_address,      \* Tibbar.exit_address
    exception_address, \* Tibbar.exception_address
    gen_left,          \* items the main generator gen has left to yield
    relocate_gen,      \* relocate_gen: <<>> for None, else <<items it has left>>
    relocating,        \* create_test: relocating
    model_hung_counter, \* create_test: model_hung_counter
    gen_hung_counter,  \* create_test: gen_hung_counter
    cycle_repeat_count, \* create_test: cycle_repeat_count
    recent_pcs,        \* create_test: the deque recent_pcs
    last_step          \* the last loop iteration: its branch, pc_before and the model's PC

reserver_vars == <<all_resources, unassigned, exclusive, shared, shared_refcount>>
funnel_vars ==
    <<producers, has_reserver, sequence_id_counter, active, idx, progressed, todo,
      status, reservation_claim, attempts, yielded, released, suspended>>
store_vars ==
    <<code_regions, data_regions, data_next, gen_store, live_memory, used_ranges,
      store_ret, calls>>
loop_vars ==
    <<data_segments, pc, loop_status, exit_address, exception_address, gen_left, relocate_gen, relocating,
      model_hung_counter, gen_hung_counter, cycle_repeat_count, recent_pcs, last_step>>
machine_vars == <<store_vars, loop_vars>>
vars == <<all_resources, unassigned, exclusive, shared, shared_refcount, ret,
          producers, has_reserver, sequence_id_counter, active, idx, progressed, todo,
          status, reservation_claim, attempts, yielded, released, suspended,
          code_regions, data_regions, data_next, gen_store, live_memory, used_ranges,
          store_ret, calls, data_segments, pc, loop_status, exit_address,
          exception_address, gen_left,
          relocate_gen, relocating, model_hung_counter, gen_hung_counter,
          cycle_repeat_count, recent_pcs, last_step>>

\* No MemoryStore has been built.
NoStore ==
    /\ code_regions = <<>>
    /\ data_regions = <<>>
    /\ data_next = <<>>
    /\ gen_store = [k \in {} |-> 0]
    /\ live_memory = [k \in {} |-> 0]
    /\ used_ranges = <<>>
    /\ store_ret = [op |-> "init", args |-> <<>>, result |-> "none", base |-> <<>>]
    /\ calls = 0

\* create_test has not been called.
NoStep == [kind |-> "none", exception |-> FALSE, pc_before |-> <<>>, model_pc |-> <<>>]
NoLoop ==
    /\ data_segments = <<>>
    /\ pc = <<>>
    /\ loop_status = "not_called"
    /\ exit_address = <<>>
    /\ exception_address = <<>>
    /\ gen_left = 0
    /\ relocate_gen = <<>>
    /\ relocating = FALSE
    /\ model_hung_counter = 0
    /\ gen_hung_counter = 0
    /\ cycle_repeat_count = 0
    /\ recent_pcs = <<>>
    /\ last_step = NoStep
NoMachine == NoStore /\ NoLoop

\* ---- bounds of the model ----
NumSeq == 2        \* sequence ids 1..NumSeq call the reserver directly
MaxEntries == 2    \* entries of one requests dict, both lists together
MaxProducers == 2  \* producers added to one funnel
MaxItems == 2      \* items one producer yields
MaxRoundRobin == 3 \* sequences added to the funnel of SpecRoundRobin
MaxCalls == 2      \* MemoryStore calls made on one store
MaxGenItems == 1   \* items the main generator yields
MaxRelocateItems == 1 \* items one relocate sequence yields
\* The limits of the main loop, smaller than in create_test so that every
\* one of them is reached: "gen_hung_counter > 100", "model_hung_counter >
\* 1000", "cycle_repeat_count > 100" and deque(maxlen=128).
GenHungLimit == 1
ModelHungLimit == 3
CycleRepeatLimit == 1
RecentPcsMaxlen == 2
MaxMapperAddr == 22 \* require_store_addr is called for addresses -2..MaxMapperAddr

\* ---- the inputs ----
GPR0 == <<"GPR", 0>>
GPR1 == <<"GPR", 1>>
FPR0 == <<"FPR", 0>>
Universe == {GPR0, GPR1, FPR0}

\* The resource spaces a Reserver is built over: one that lists x0, as
\* DictResourceSpace({"GPR": range(4)}) of the tests does, and one that does
\* not and leaves a namespace and ResourceIds of the inputs outside the space.
Spaces == {{GPR0, GPR1, FPR0}, {GPR1}}

SeqIds == 1..NumSeq

Entries ==
    {<<"id", r[1], r[2]>> : r \in Universe}
        \cup {<<"slot", "GPR", 1>>, <<"slot", "GPR", 2>>, <<"slot", "FPR", 1>>}

ListsOf(n) == [1..n -> Entries]

RequestDicts ==
    UNION {{[exclusive |-> e, shared |-> s] : e \in ListsOf(k), s \in ListsOf(n - k)}
            : <<n, k>> \in {<<n, k>> \in (0..MaxEntries) \X (0..MaxEntries) : k <= n}}

\* ---- tibbar/core/resource.py ----

\* The mutable fields of a Reserver, as one value.
ReserverState(u, e, s, c) ==
    [unassigned |-> u, exclusive |-> e, shared |-> s, shared_refcount |-> c]

\* self, as the Reserver stands now.
Self == ReserverState(unassigned, exclusive, shared, shared_refcount)

\* _ZERO_REG = ResourceId("GPR", 0)
ZERO_REG == <<"GPR", 0>>

IsResourceId(req) == req[1] = "id"
ResourceIdOf(req) == <<req[2], req[3]>>

\* for req in exclusive_requests + shared_requests:
\*     if isinstance(req, ResourceId) and req == _ZERO_REG: raise
NamesZeroReg(requests) ==
    LET all == requests.exclusive \o requests.shared IN
    \E i \in 1..Len(all) : IsResourceId(all[i]) /\ ResourceIdOf(all[i]) = ZERO_REG

\* exclusive_holds, shared_holds: the unions of the dicts' values
ExclusiveHolds(rs) == UNION {rs.exclusive[s] : s \in DOMAIN rs.exclusive}
SharedHolds(rs) == UNION {rs.shared[s] : s \in DOMAIN rs.shared}

\* exclusive_exclude = frozenset(exclusive_holds | shared_holds)
ExclusiveExclude(rs) == ExclusiveHolds(rs) \cup SharedHolds(rs)

\* exclusive_available = self._unassigned - exclusive_exclude
ExclusiveAvailable(rs) == rs.unassigned \ ExclusiveExclude(rs)

\* DictResourceSpace.allocatable_from_namespace
AllocatableFromNamespace(namespace, count, exclude) ==
    {r \in all_resources : r[1] = namespace} \ exclude

\* picked = list(candidates)[: req.count]: the first count elements in the
\* set's iteration order, which the hash seed of the run decides.
Picked(candidates, count) ==
    {p \in SUBSET candidates : Cardinality(p) = count}

\* A loop left by "return None", the picks so far being needed.
LoopReturnedNone(needed) == [ok |-> FALSE, needed |-> needed]

\* Mutant: a ResourceId already in exclusive_needed is no longer available,
\* so a list naming it twice returns None.
RECURSIVE ExclusiveNeededNoRepeat(_, _, _, _)
ExclusiveNeededNoRepeat(rs, reqs, i, needed) ==
    IF i > Len(reqs) THEN {[ok |-> TRUE, needed |-> needed]}
    ELSE IF IsResourceId(reqs[i])
    THEN IF ResourceIdOf(reqs[i]) \notin ExclusiveAvailable(rs) \ needed
         THEN {LoopReturnedNone(needed)}
         ELSE ExclusiveNeededNoRepeat(rs, reqs, i + 1, needed \cup {ResourceIdOf(reqs[i])})
    ELSE LET available ==
                 AllocatableFromNamespace(reqs[i][2], reqs[i][3], ExclusiveExclude(rs))
             candidates == available \cap ExclusiveAvailable(rs)
         IN IF Cardinality(candidates) < reqs[i][3]
            THEN {LoopReturnedNone(needed)}
            ELSE UNION {ExclusiveNeededNoRepeat(rs, reqs, i + 1, needed \cup picked)
                         : picked \in Picked(candidates, reqs[i][3])}

\* The loop over exclusive_requests from entry i on, exclusive_needed so far
\* being needed: the set of ways it can end.
RECURSIVE ExclusiveNeeded(_, _, _, _)
ExclusiveNeeded(rs, reqs, i, needed) ==
    IF i > Len(reqs) THEN {[ok |-> TRUE, needed |-> needed]}
    ELSE IF IsResourceId(reqs[i])
    THEN IF ResourceIdOf(reqs[i]) \notin ExclusiveAvailable(rs)
         THEN {LoopReturnedNone(needed)}
         ELSE ExclusiveNeeded(rs, reqs, i + 1, needed \cup {ResourceIdOf(reqs[i])})
    ELSE LET available ==
                 AllocatableFromNamespace(reqs[i][2], reqs[i][3], ExclusiveExclude(rs))
             candidates == available \cap ExclusiveAvailable(rs)
         IN IF Cardinality(candidates) < reqs[i][3]
            THEN {LoopReturnedNone(needed)}
            ELSE UNION {ExclusiveNeeded(rs, reqs, i + 1, needed \cup picked)
                         : picked \in Picked(candidates, reqs[i][3])}

\* Mutant: the current exclusive holds are left out of shared_exclude.
SharedExcludeNewOnly(rs, exclusive_needed) == exclusive_needed

\* Mutant: the current shared holds are put into shared_exclude as well.
SharedExcludeAllHolds(rs, exclusive_needed) == ExclusiveExclude(rs) \cup exclusive_needed

\* shared_exclude = frozenset(exclusive_holds | exclusive_needed)
SharedExclude(rs, exclusive_needed) == ExclusiveHolds(rs) \cup exclusive_needed

\* The loop over shared_requests.
RECURSIVE SharedNeeded(_, _, _, _)
SharedNeeded(reqs, i, needed, shared_exclude) ==
    IF i > Len(reqs) THEN {[ok |-> TRUE, needed |-> needed]}
    ELSE IF IsResourceId(reqs[i])
    THEN IF ResourceIdOf(reqs[i]) \in shared_exclude
         THEN {LoopReturnedNone(needed)}
         ELSE SharedNeeded(reqs, i + 1, needed \cup {ResourceIdOf(reqs[i])}, shared_exclude)
    ELSE LET available == AllocatableFromNamespace(reqs[i][2], reqs[i][3], shared_exclude)
             shared_pool == all_resources \ shared_exclude
             candidates == available \cap shared_pool
         IN IF Cardinality(candidates) < reqs[i][3]
            THEN {LoopReturnedNone(needed)}
            ELSE UNION {SharedNeeded(reqs, i + 1, needed \cup picked, shared_exclude)
                         : picked \in Picked(candidates, reqs[i][3])}

\* Mutant: the exclusive picks are taken out of unassigned as they are made,
\* so a later "return None" leaves them taken.
ReturnNoneAfterWrite(rs, exclusive_needed, shared_needed) ==
    [result |-> "none", claim_exclusive |-> {}, claim_shared |-> {},
     state |-> [rs EXCEPT !.unassigned = @ \ exclusive_needed]]

\* return None, with exclusive_needed and shared_needed as far as they got:
\* nothing of self has been written yet.
ReturnNone(rs, exclusive_needed, shared_needed) ==
    [result |-> "none", claim_exclusive |-> {}, claim_shared |-> {}, state |-> rs]

\* raise ReservationError(...)
RaiseReservationError(rs) ==
    [result |-> "error", claim_exclusive |-> {}, claim_shared |-> {}, state |-> rs]

\* Mutant: the refcount is set to 1 instead of prev + 1.
BumpRefcountOverwrite(refcount, shared_needed) ==
    [r \in DOMAIN refcount \cup shared_needed |->
        IF r \in shared_needed THEN 1 ELSE refcount[r]]

\* prev = self._shared_refcount.get(r, 0); self._shared_refcount[r] = prev + 1
BumpRefcount(refcount, shared_needed) ==
    [r \in DOMAIN refcount \cup shared_needed |->
        IF r \in shared_needed
        THEN (IF r \in DOMAIN refcount THEN refcount[r] ELSE 0) + 1
        ELSE refcount[r]]

\* Mutant: the shared picks are not discarded from unassigned.
UnassignedAfterCommitKeepsShared(rs, exclusive_needed, shared_needed) ==
    rs.unassigned \ exclusive_needed

\* self._unassigned -= exclusive_needed, and discard(r) for the shared r
\* whose refcount was 0
UnassignedAfterCommit(rs, exclusive_needed, shared_needed) ==
    (rs.unassigned \ exclusive_needed)
        \ {r \in shared_needed : r \notin DOMAIN rs.shared_refcount}

\* Lines 162-176: the commit and the AllocatedClaim.
Commit(rs, sequence_id, exclusive_needed, shared_needed) ==
    [result |-> "claim",
     claim_exclusive |-> exclusive_needed,
     claim_shared |-> shared_needed,
     state |-> ReserverState(
        UnassignedAfterCommit(rs, exclusive_needed, shared_needed),
        IF exclusive_needed # {}
        THEN (sequence_id :> exclusive_needed) @@ rs.exclusive
        ELSE rs.exclusive,
        IF shared_needed # {}
        THEN (sequence_id :> shared_needed) @@ rs.shared
        ELSE rs.shared,
        IF shared_needed # {}
        THEN BumpRefcount(rs.shared_refcount, shared_needed)
        ELSE rs.shared_refcount)]

\* if sequence_id in self._exclusive or sequence_id in self._shared
AlreadyAllocated(rs, sequence_id) ==
    sequence_id \in DOMAIN rs.exclusive \/ sequence_id \in DOMAIN rs.shared

\* Reserver.request: the set of ways the call can end.
RequestOutcomes(rs, sequence_id, requests) ==
    IF AlreadyAllocated(rs, sequence_id)
    THEN {ReturnNone(rs, {}, {})}
    ELSE IF NamesZeroReg(requests)
    THEN {RaiseReservationError(rs)}
    ELSE UNION {
        IF ~e.ok THEN {ReturnNone(rs, e.needed, {})}
        ELSE UNION {
            IF ~s.ok THEN {ReturnNone(rs, e.needed, s.needed)}
            ELSE IF e.needed \cap s.needed # {}
            THEN {ReturnNone(rs, e.needed, s.needed)}
            ELSE {Commit(rs, sequence_id, e.needed, s.needed)}
            : s \in SharedNeeded(requests.shared, 1, {}, SharedExclude(rs, e.needed))}
        : e \in ExclusiveNeeded(rs, requests.exclusive, 1, {})}

\* del dict[key]
DropKey(dict, key) == [k \in DOMAIN dict \ {key} |-> dict[k]]

\* The shared resources whose refcount release brings to 0.
ReleasedToZero(rs, sh) == {r \in sh : rs.shared_refcount[r] - 1 = 0}

\* Mutant: release gives nothing back.
ReleaseOutcomeKeeps(rs, sequence_id) == rs

\* Reserver.release
ReleaseOutcome(rs, sequence_id) ==
    LET ex == IF sequence_id \in DOMAIN rs.exclusive THEN rs.exclusive[sequence_id] ELSE {}
        sh == IF sequence_id \in DOMAIN rs.shared THEN rs.shared[sequence_id] ELSE {}
        zeroed == ReleasedToZero(rs, sh)
    IN ReserverState(
        (rs.unassigned \cup ex) \cup zeroed,
        DropKey(rs.exclusive, sequence_id),
        DropKey(rs.shared, sequence_id),
        [r \in DOMAIN rs.shared_refcount \ zeroed |->
            IF r \in sh THEN rs.shared_refcount[r] - 1 ELSE rs.shared_refcount[r]])

Install(state) ==
    /\ unassigned' = state.unassigned
    /\ exclusive' = state.exclusive
    /\ shared' = state.shared
    /\ shared_refcount' = state.shared_refcount

EmptyDict == [k \in {} |-> {}]

\* ---- tibbar/core/funnels.py ----

\* get_resource_requests() of the producers: the default {} of SequenceBase
\* (both lists empty), the requests of ExampleGPRSequence (gpr_index 1 and 0)
\* and ExampleSlotSequence, and shared and two-register requests.
NoRequests == [exclusive |-> <<>>, shared |-> <<>>]
ProducerRequests ==
    {NoRequests,
     [exclusive |-> <<<<"id", "GPR", 1>>>>, shared |-> <<>>],
     [exclusive |-> <<<<"id", "GPR", 0>>>>, shared |-> <<>>],
     [exclusive |-> <<<<"slot", "GPR", 1>>>>, shared |-> <<>>],
     [exclusive |-> <<>>, shared |-> <<<<"id", "GPR", 1>>>>],
     [exclusive |-> <<<<"slot", "GPR", 2>>>>, shared |-> <<<<"id", "FPR", 0>>>>]}

\* A producer: a sequence with its requests and the number of items its gen()
\* yields, or a nested funnel yielding so many items.
ProducerConfigs ==
    [kind : {"sequence"}, requests : ProducerRequests, items : 0..MaxItems]
        \cup [kind : {"funnel"}, requests : {NoRequests}, items : 0..MaxItems]

\* _is_funnel(producer)
IsFunnel(producer) == producer.kind = "funnel"

\* Mutant: no sequence asks the reserver.
ReservesNever(producer) == FALSE

\* "if self._reserver and requests": a dict is true when it is not empty.
Reserves(producer) == has_reserver /\ producer.requests # NoRequests

\* gen() up to the first iteration of its for loop, over the producers added.
GenStart ==
    /\ sequence_id_counter = 0
    /\ active = [i \in 1..Len(producers) |->
                    [producer |-> i, it |-> "None", left |-> producers[i].items,
                     sid |-> -1]]
    /\ idx = 0
    /\ progressed = FALSE
    /\ todo = Len(producers)
    /\ status = IF Len(producers) = 0 THEN "done" ELSE "running"
    /\ reservation_claim = [i \in 1..Len(producers) |-> "unset"]
    /\ attempts = [i \in 1..Len(producers) |-> 0]
    /\ yielded = <<>>
    /\ released = [k \in {} |-> 0]
    /\ suspended = TRUE

\* RoundRobinFunnel.__init__, add_sequence/add_funnel, and gen() up to the
\* first iteration of its for loop.
FunnelInit ==
    /\ producers \in UNION {[1..n -> ProducerConfigs] : n \in 0..MaxProducers}
    /\ has_reserver \in BOOLEAN
    \* Without a reserver gen never reads the requests beyond calling
    \* get_resource_requests(): two kinds of them are enough there.
    /\ ~has_reserver =>
            /\ all_resources = {GPR0, GPR1, FPR0}
            /\ \A i \in 1..Len(producers) :
                    producers[i].requests \in
                        {NoRequests, [exclusive |-> <<<<"id", "GPR", 1>>>>, shared |-> <<>>]}
    /\ GenStart

\* No funnel: the reserver is called directly.
NoFunnel ==
    /\ producers = <<>>
    /\ has_reserver = FALSE
    /\ sequence_id_counter = 0
    /\ active = <<>>
    /\ idx = 0
    /\ progressed = FALSE
    /\ todo = 0
    /\ status = "done"
    /\ reservation_claim = <<>>
    /\ attempts = <<>>
    /\ yielded = <<>>
    /\ released = [k \in {} |-> 0]
    /\ suspended = TRUE

\* pos = idx % len(active); the tuple active[pos]
Pos == idx % Len(active)
Cur == active[Pos + 1]
CurProducer == producers[Cur.producer]

\* active.pop(pos)
Pop(list, pos) == [i \in 1..(Len(list) - 1) |-> IF i <= pos THEN list[i] ELSE list[i + 1]]

\* Mutant: the iteration that starts a producer does not move the cursor on,
\* so a producer yields twice in a row when it starts.
IdxAfterYieldNotOnStart(i) == IF Cur.it = "None" THEN i ELSE i + 1

\* "yield item; progressed = True; idx += 1"
IdxAfterYield(i) == i + 1

\* Mutant: a blocked producer does not move the cursor on.
IdxAfterBlockedStays(i) == i

\* "if claim is None: idx += 1; continue"
IdxAfterBlocked(i) == i + 1

\* idx after active.pop(pos): idx %= len(active), or 0 when none is left
IdxAfterPop(i, new_active) == IF new_active # <<>> THEN i % Len(new_active) ELSE 0

\* The producers of active that have been started.
Running(list) == {list[i].producer : i \in {j \in 1..Len(list) : list[j].it # "None"}}

\* The producers that are in active.
Listed(list) == {list[i].producer : i \in 1..Len(list)}

\* Mutant: after a round without progress gen returns without an error.
EndIterationNoRaise(new_active, new_progressed) ==
    IF todo - 1 > 0 /\ new_active # <<>>
    THEN /\ todo' = todo - 1
         /\ progressed' = new_progressed
         /\ status' = "running"
    ELSE IF new_active = <<>> \/ ~new_progressed
    THEN /\ todo' = 0
         /\ progressed' = new_progressed
         /\ status' = "done"
    ELSE /\ todo' = Len(new_active)
         /\ progressed' = FALSE
         /\ status' = "running"

\* The end of one iteration of the for loop: the next iteration, or, when the
\* loop is over (range(rounds) used up, or "if not active: break"), the
\* "if not progressed: raise" and the next turn of "while active".
EndIteration(new_active, new_progressed) ==
    IF todo - 1 > 0 /\ new_active # <<>>
    THEN /\ todo' = todo - 1
         /\ progressed' = new_progressed
         /\ status' = "running"
    ELSE IF ~new_progressed
    THEN /\ todo' = 0
         /\ progressed' = new_progressed
         /\ status' = "cannot_progress"
    ELSE IF new_active = <<>>
    THEN /\ todo' = 0
         /\ progressed' = new_progressed
         /\ status' = "done"
    ELSE /\ todo' = Len(new_active)
         /\ progressed' = FALSE
         /\ status' = "running"

\* Mutant: ReservationError is not caught apart: the producer is skipped and
\* retried like a blocked one.
HowStartedRetry(result) == IF result = "claim" THEN "started" ELSE "blocked"

\* What gen does with the answer of reserver.request: "except
\* ReservationError: raise RuntimeError", "if claim is None: idx += 1;
\* continue", else the producer is started.
HowStarted(result) ==
    CASE result = "claim" -> "started"
      [] result = "none" -> "blocked"
      [] OTHER -> "invalid"

\* Lines 72-107, "if it is None": the ways starting the producer at pos can
\* end.  how is "started" (it is now a generator), "blocked" (claim is None)
\* or "invalid" (ReservationError); sid is the id release will be called with,
\* -1 when the iterator is not wrapped in _gen_with_release.
StartOutcomes ==
    IF Cur.it # "None"
    THEN {[how |-> "started", state |-> Self, sid |-> Cur.sid, called |-> FALSE,
           claim |-> reservation_claim[Cur.producer], result |-> "none"]}
    ELSE IF IsFunnel(CurProducer)
    THEN {[how |-> "started", state |-> Self, sid |-> -1, called |-> FALSE,
           claim |-> reservation_claim[Cur.producer], result |-> "none"]}
    ELSE IF ~Reserves(CurProducer)
    THEN {[how |-> "started", state |-> Self, sid |-> -1, called |-> FALSE,
           claim |-> "None", result |-> "none"]}
    ELSE {[how |-> HowStarted(o.result),
           state |-> o.state,
           sid |-> IF o.result = "claim" THEN sequence_id_counter ELSE -1,
           called |-> TRUE,
           claim |-> IF o.result = "claim"
                     THEN [exclusive |-> o.claim_exclusive, shared |-> o.claim_shared]
                     ELSE reservation_claim[Cur.producer],
           result |-> o.result]
          : o \in RequestOutcomes(Self, sequence_id_counter, CurProducer.requests)}

\* What a start leaves in the funnel's own bookkeeping.
Started(s) ==
    /\ sequence_id_counter' = IF s.called THEN sequence_id_counter + 1 ELSE sequence_id_counter
    /\ attempts' = IF s.called
                   THEN [attempts EXCEPT ![Cur.producer] = @ + 1]
                   ELSE attempts
    /\ reservation_claim' = [reservation_claim EXCEPT ![Cur.producer] = s.claim]

\* The release calls counted so far, with the claim this start obtained (if
\* any) entered as not yet released.
Obtained(s) ==
    IF s.called /\ s.result = "claim" THEN (s.sid :> 0) @@ released ELSE released

\* _gen_with_release: "finally: _reserver.release(_sid)" has run for sid.
ReleaseCalled(rel, sid) == IF sid >= 0 THEN [rel EXCEPT ![sid] = @ + 1] ELSE rel

\* The reserver raised ReservationError: gen raises RuntimeError("Invalid
\* resource request from ...").
FunnelInvalidRequest ==
    /\ status = "running"
    /\ \E s \in StartOutcomes :
        /\ s.how = "invalid"
        /\ Started(s)
        /\ Install(s.state)
        /\ ret' = [op |-> "request", result |-> s.result]
        /\ status' = "invalid_request"
        /\ suspended' = FALSE
        /\ UNCHANGED <<machine_vars, all_resources, producers, has_reserver, active, idx, progressed,
                       todo, yielded, released>>

\* The reserver returned None: "idx += 1; continue".
FunnelBlocked ==
    /\ status = "running"
    /\ \E s \in StartOutcomes :
        /\ s.how = "blocked"
        /\ Started(s)
        /\ Install(s.state)
        /\ ret' = [op |-> "request", result |-> s.result]
        /\ idx' = IdxAfterBlocked(idx)
        /\ EndIteration(active, progressed)
        /\ suspended' = FALSE
        /\ UNCHANGED <<machine_vars, all_resources, producers, has_reserver, active, yielded, released>>

\* The producer at pos is started if it was not, and next(it) gives an item:
\* "yield item; progressed = True; idx += 1".
FunnelYield ==
    /\ status = "running"
    /\ \E s \in StartOutcomes :
        /\ s.how = "started"
        /\ Cur.left > 0
        /\ Started(s)
        /\ Install(s.state)
        /\ ret' = IF s.called THEN [op |-> "request", result |-> s.result] ELSE ret
        /\ LET new_active ==
                [active EXCEPT ![Pos + 1] =
                    [producer |-> Cur.producer, it |-> "generator",
                     left |-> Cur.left - 1, sid |-> s.sid]]
           IN /\ active' = new_active
              /\ yielded' = Append(yielded, [producer |-> Cur.producer,
                                     running |-> Running(new_active),
                                     listed |-> Listed(new_active)])
              /\ idx' = IdxAfterYield(idx)
              /\ EndIteration(new_active, TRUE)
        /\ released' = Obtained(s)
        /\ suspended' = TRUE
        /\ UNCHANGED <<machine_vars, all_resources, producers, has_reserver>>

\* The producer at pos is started if it was not, and next(it) raises
\* StopIteration: _gen_with_release releases in its finally, then
\* "active.pop(pos); progressed = True; idx %= len(active)".
FunnelExhausted ==
    /\ status = "running"
    /\ \E s \in StartOutcomes :
        /\ s.how = "started"
        /\ Cur.left = 0
        /\ Started(s)
        /\ Install(IF s.sid >= 0 THEN ReleaseOutcome(s.state, s.sid) ELSE s.state)
        /\ ret' = IF s.sid >= 0 THEN [op |-> "release", result |-> "none"]
                  ELSE ret
        /\ LET new_active == Pop(active, Pos)
           IN /\ active' = new_active
              /\ idx' = IdxAfterPop(idx, new_active)
              /\ EndIteration(new_active, TRUE)
        /\ released' = ReleaseCalled(Obtained(s), s.sid)
        /\ suspended' = FALSE
        /\ UNCHANGED <<machine_vars, all_resources, producers, has_reserver, yielded>>

\* The producer at pos is started if it was not, and next(it) raises an
\* exception other than StopIteration: the finally of _gen_with_release
\* releases, and the exception leaves gen, which catches StopIteration only.
FunnelSequenceRaises ==
    /\ status = "running"
    /\ \E s \in StartOutcomes :
        /\ s.how = "started"
        /\ Started(s)
        /\ Install(IF s.sid >= 0 THEN ReleaseOutcome(s.state, s.sid) ELSE s.state)
        /\ ret' = IF s.sid >= 0 THEN [op |-> "release", result |-> "none"]
                  ELSE ret
        /\ released' = ReleaseCalled(Obtained(s), s.sid)
        /\ active' = [active EXCEPT ![Pos + 1] =
                        [producer |-> Cur.producer, it |-> "finished",
                         left |-> Cur.left, sid |-> -1]]
        /\ status' = "raised"
        /\ suspended' = FALSE
        /\ UNCHANGED <<machine_vars, all_resources, producers, has_reserver, idx, progressed, todo,
                       yielded>>

\* The consumer stops early: it closes the generator (or drops its last
\* reference to it) while gen is suspended at "yield item" or not yet started;
\* GeneratorExit leaves gen.
FunnelClose ==
    /\ status = "running"
    /\ suspended
    /\ status' = "closed"
    /\ suspended' = FALSE
    /\ UNCHANGED <<machine_vars, reserver_vars, ret, producers, has_reserver, sequence_id_counter,
                   active, idx, progressed, todo, reservation_claim, attempts, yielded,
                   released>>

\* Mutant: a generator that is closed before its end releases nothing.
UnfinishedNotReleased(list) == {}

\* The sequence ids of the _gen_with_release generators held in list that
\* are suspended in their "yield from".
Unfinished(list) ==
    {list[i].sid : i \in {j \in 1..Len(list) : list[j].it = "generator" /\ list[j].sid >= 0}}

RECURSIVE ReleaseAll(_, _)
ReleaseAll(rs, sids) ==
    IF sids = {} THEN rs
    ELSE LET sid == CHOOSE x \in sids : TRUE
         IN ReleaseAll(ReleaseOutcome(rs, sid), sids \ {sid})

\* gen has ended abruptly and its frame is cleared: the list active goes, and
\* each _gen_with_release generator in it is closed as it is finalised, which
\* runs its "finally: _reserver.release(_sid)".
FunnelFinalize ==
    /\ status \in {"invalid_request", "raised", "closed"}
    /\ Unfinished(active) # {}
    /\ Install(ReleaseAll(Self, Unfinished(active)))
    /\ ret' = [op |-> "release", result |-> "none"]
    /\ released' = [k \in DOMAIN released |->
                        IF k \in Unfinished(active) THEN released[k] + 1 ELSE released[k]]
    /\ active' = <<>>
    /\ UNCHANGED <<machine_vars, all_resources, producers, has_reserver, sequence_id_counter, idx,
                   progressed, todo, status, reservation_claim, attempts, yielded,
                   suspended>>

\* ---- tibbar/core/memory_store.py ----
\* An optional argument is <<>> for None and <<v>> for the value v.  A region
\* and a used range are pairs <<lo, hi>> standing for [lo, hi).

Max(a, b) == IF a >= b THEN a ELSE b
Min(a, b) == IF a <= b THEN a ELSE b

\* x & y for x, y >= 0
RECURSIVE BitAnd(_, _)
BitAnd(x, y) ==
    IF x = 0 \/ y = 0 THEN 0
    ELSE (x % 2) * (y % 2) + 2 * BitAnd(x \div 2, y \div 2)

\* The mutable fields of a MemoryStore, as one value.
StoreState(g, l, u) == [gen_store |-> g, live_memory |-> l, used_ranges |-> u]
Store == StoreState(gen_store, live_memory, used_ranges)

\* list.sort(key=lambda r: r[0]) after appending r to a sorted list: the sort
\* is stable, so r goes behind the entries whose start is not larger.
InsertSorted(ranges, r) ==
    LET k == Cardinality({i \in 1..Len(ranges) : ranges[i][1] <= r[1]})
    IN SubSeq(ranges, 1, k) \o <<r>> \o SubSeq(ranges, k + 1, Len(ranges))

\* _normalize_regions: drop the empty regions, sort by lo.
RECURSIVE NormalizeRegions(_, _, _)
NormalizeRegions(regions, i, out) ==
    IF i > Len(regions) THEN out
    ELSE IF regions[i][2] <= regions[i][1] THEN NormalizeRegions(regions, i + 1, out)
    ELSE NormalizeRegions(regions, i + 1, InsertSorted(out, regions[i]))

\* The merge loop of _insert_used_range.
RECURSIVE Merge(_, _, _)
Merge(ranges, i, merged) ==
    IF i > Len(ranges) THEN merged
    ELSE LET n == Len(merged) IN
         IF n > 0 /\ ranges[i][1] <= merged[n][2]
         THEN Merge(ranges, i + 1,
                    [merged EXCEPT ![n] = <<merged[n][1], Max(merged[n][2], ranges[i][2])>>])
         ELSE Merge(ranges, i + 1, Append(merged, ranges[i]))

\* Mutant: the new range is sorted in but nothing is merged.
InsertUsedRangeUnmerged(ranges, start, end) ==
    IF start >= end THEN ranges
    ELSE InsertSorted(ranges, <<start, end>>)

\* _insert_used_range(start, end)
InsertUsedRange(ranges, start, end) ==
    IF start >= end THEN ranges
    ELSE Merge(InsertSorted(ranges, <<start, end>>), 1, <<>>)

\* bisect.bisect_left(self._used_starts, x)
BisectLeft(ranges, x) == Cardinality({i \in 1..Len(ranges) : ranges[i][1] < x})

\* _in_regions(regions, addr, size)
InRegions(regions, addr, size) ==
    \E i \in 1..Len(regions) : regions[i][1] <= addr /\ addr + size <= regions[i][2]

\* _is_valid_range(addr, size)
IsValidRange(addr, size) ==
    /\ addr >= 0 /\ size > 0
    /\ InRegions(code_regions, addr, size) \/ InRegions(data_regions, addr, size)

\* (x + align - 1) & -align
AlignUp(x, align) == (x + align - 1) - BitAnd(x + align - 1, align - 1)

\* The candidates of one free gap [gap_lo, gap_hi): its first aligned base
\* and, with a pc, the aligned base nearest to pc.
GapCandidates(gap_lo, gap_hi, min_size, align, pc_addr) ==
    IF gap_hi - gap_lo < min_size THEN <<>>
    ELSE LET cand_lo == AlignUp(gap_lo, align)
             cand_hi == gap_hi - min_size
             up == AlignUp(Max(cand_lo, Min(cand_hi, pc_addr[1])), align)
             near == IF up > cand_hi
                     THEN (IF align > 1 THEN (cand_hi \div align) * align ELSE cand_hi)
                     ELSE up
         IN IF cand_lo > cand_hi THEN <<>>
            ELSE IF pc_addr # <<>> /\ cand_lo <= near /\ near <= cand_hi
            THEN <<cand_lo, near>>
            ELSE <<cand_lo>>

\* The while loop over the used ranges from index i on (lines 169-189) and
\* the last gap (lines 191-203), for the window [.., window_end).
RECURSIVE ScanUsed(_, _, _, _, _, _, _)
ScanUsed(used, i, gap_lo, window_end, min_size, align, pc_addr) ==
    IF i > Len(used) \/ used[i][1] >= window_end
    THEN IF gap_lo < window_end
         THEN GapCandidates(gap_lo, window_end, min_size, align, pc_addr)
         ELSE <<>>
    ELSE IF used[i][2] <= gap_lo
    THEN ScanUsed(used, i + 1, gap_lo, window_end, min_size, align, pc_addr)
    ELSE GapCandidates(gap_lo, Min(used[i][1], window_end), min_size, align, pc_addr)
            \o ScanUsed(used, i + 1, Max(gap_lo, used[i][2]), window_end, min_size,
                        align, pc_addr)

\* Lines 146-153: the part <<lo, hi>> of a code region that the filters leave.
Window(region, pc_addr, min_start, within) ==
    LET lo1 == IF min_start # <<>> THEN Max(region[1], min_start[1]) ELSE region[1]
    IN IF within # <<>> /\ pc_addr # <<>>
       THEN <<Max(lo1, pc_addr[1] + within[1]), Min(region[2], pc_addr[1] + within[2] + 1)>>
       ELSE <<lo1, region[2]>>

\* One turn of "for lo_raw, hi_raw in self._code_regions".
RegionCandidates(used, region, min_size, align, pc_addr, min_start, within) ==
    LET w == Window(region, pc_addr, min_start, within)
        i0 == BisectLeft(used, w[1])
        first == IF i0 > 0 /\ used[i0][2] > w[1] THEN i0 ELSE i0 + 1
    IN IF w[2] - w[1] < min_size THEN <<>>
       ELSE ScanUsed(used, first, w[1], w[2], min_size, align, pc_addr)

\* _add_candidate: a candidate is appended unless it was seen.
RECURSIVE AddCandidates(_, _, _)
AddCandidates(candidates, new, i) ==
    IF i > Len(new) THEN candidates
    ELSE IF \E j \in 1..Len(candidates) : candidates[j] = new[i]
    THEN AddCandidates(candidates, new, i + 1)
    ELSE AddCandidates(Append(candidates, new[i]), new, i + 1)

\* _iter_code_candidates
RECURSIVE IterCodeCandidates(_, _, _, _, _, _, _, _)
IterCodeCandidates(used, r, candidates, min_size, align, pc_addr, min_start, within) ==
    IF r > Len(code_regions) THEN candidates
    ELSE IterCodeCandidates(used, r + 1,
            AddCandidates(candidates,
                RegionCandidates(used, code_regions[r], min_size, align, pc_addr,
                                 min_start, within), 1),
            min_size, align, pc_addr, min_start, within)

Abs(x) == IF x < 0 THEN -x ELSE x

\* candidates.sort(key=lambda c: abs(c - pc_addr)); candidates[:min(64, len)]:
\* the sort is stable.
NearLimit == 64
Nearest(candidates, pc_addr) ==
    {candidates[i] : i \in {k \in 1..Len(candidates) :
        Cardinality({j \in 1..Len(candidates) :
            \/ Abs(candidates[j] - pc_addr) < Abs(candidates[k] - pc_addr)
            \/ Abs(candidates[j] - pc_addr) = Abs(candidates[k] - pc_addr) /\ j < k})
        < NearLimit}}

\* allocate(min_size, align, "code", pc, min_start, within): the bases that
\* random.choice can return; the empty set when allocate returns None.
AllocateOutcomes(ms, min_size, align, pc_arg, min_start, within) ==
    LET guided == IterCodeCandidates(ms.used_ranges, 1, <<>>, min_size, align, pc_arg,
                                     min_start, within)
        candidates ==
            IF guided = <<>> /\ pc_arg # <<>>
            THEN IterCodeCandidates(ms.used_ranges, 1, <<>>, min_size, align, <<>>,
                                    min_start, within)
            ELSE guided
    IN IF candidates = <<>> THEN {}
       ELSE IF pc_arg = <<>> THEN {candidates[i] : i \in 1..Len(candidates)}
       ELSE Nearest(candidates, pc_arg[1])

\* (data >> (8 * i)) & 0xFF
RECURSIVE ByteOf(_, _)
ByteOf(data, i) == IF i = 0 THEN data % 256 ELSE ByteOf(data \div 256, i - 1)

\* One placement of add_to_mem_store (lines 353-380): the overlap loop, the
\* insertion into _gen_store and _used_ranges, the strobe match and
\* write_to_mem_store.  What was inserted stays when a later line raises.
PlaceItem(ms, addr, byte_size, data) ==
    LET end == addr + byte_size
        placed == StoreState((addr :> byte_size) @@ ms.gen_store, ms.live_memory,
                             InsertUsedRange(ms.used_ranges, addr, end))
        bytes == [i \in addr..(end - 1) |-> ByteOf(data, i - addr)]
    IN IF \E a \in DOMAIN ms.gen_store :
              ~(end <= a \/ addr >= a + ms.gen_store[a])
       THEN [ms |-> ms, result |-> "already_in_use"]
       ELSE IF byte_size \notin {1, 2, 4, 8}
       THEN [ms |-> placed, result |-> "unsupported_datasize"]
       ELSE IF ~IsValidRange(addr, byte_size)
       THEN [ms |-> placed, result |-> "out_of_range"]
       ELSE [ms |-> [placed EXCEPT !.live_memory = bytes @@ @], result |-> "ok"]

\* add_to_mem_store(test_obj): the load/store data of the item is placed
\* first, by the recursive call, and its exception ends the outer call.
AddOutcome(ms, item) ==
    IF item.addr = <<>> THEN [ms |-> ms, result |-> "addr_not_set"]
    ELSE IF item.ldst_data = <<>>
    THEN PlaceItem(ms, item.addr[1], item.byte_size, item.data)
    ELSE IF item.ldst_addr = <<>> THEN [ms |-> ms, result |-> "ldst_addr_required"]
    ELSE LET inner == PlaceItem(ms, item.ldst_addr[1], item.ldst_size, item.ldst_data[1])
         IN IF inner.result # "ok" THEN inner
            ELSE PlaceItem(inner.ms, item.addr[1], item.byte_size, item.data)

\* ---- inputs of the MemoryStore model ----
\* MemoryStore(max_size, code_regions, data_regions): unified mode with the
\* default code region, and separate mode with two code banks (given out of
\* order, one empty region among them) and one data bank.
StoreConfigs ==
    { [max_size |-> 16, code_regions |-> <<>>, data_regions |-> <<>>],
      [max_size |-> 32, code_regions |-> << <<12, 20>>, <<0, 8>>, <<5, 5>> >>,
       data_regions |-> << <<24, 32>> >>] }
GenDatas ==
    { [addr |-> a, byte_size |-> b, data |-> 513, ldst_data |-> <<>>, ldst_addr |-> <<>>,
       ldst_size |-> 8] : a \in {<<>>, <<0>>, <<2>>, <<14>>, <<40>>}, b \in {3, 4} }
    \cup
    { [addr |-> <<0>>, byte_size |-> 4, data |-> 513, ldst_data |-> <<7>>, ldst_addr |-> la,
       ldst_size |-> ls] : la \in {<<>>, <<8>>}, ls \in {2, 8} }
AllocateArgs ==
    { [min_size |-> n, align |-> a, purpose |-> "code", pc |-> pw[1], min_start |-> m,
       within |-> pw[2]] :
        n \in {2, 4}, a \in {1, 3, 4}, m \in {<<>>, <<4>>},
        pw \in { <<<<>>, <<>>>>, <<<<>>, <<0, 3>>>>, <<<<0>>, <<>>>>, <<<<0>>, <<0, 3>>>>,
                 <<<<6>>, <<>>>>, <<<<6>>, <<-4, 3>>>> } }
    \cup
    { [min_size |-> n, align |-> a, purpose |-> "data", pc |-> <<>>, min_start |-> <<>>,
       within |-> <<>>] : n \in {4}, a \in {4} }
ReserveArgs == { [size |-> n, align |-> 8] : n \in {4, 12, 20} }
\* The writes: data below 2^31 whose bytes are 01 02, 04 03 02 01 and FF.
WriteArgs ==
    [addr : {0, 6, 13, 26, 40}, data : {513, 16909060, 255}, size : {1, 2, 4, 8}]

\* MemoryStore.__init__
StoreInit ==
    /\ \E c \in StoreConfigs :
        /\ code_regions = NormalizeRegions(
               IF c.code_regions # <<>> THEN c.code_regions ELSE << <<0, c.max_size>> >>,
               1, <<>>)
        /\ data_regions = NormalizeRegions(c.data_regions, 1, <<>>)
    /\ data_next = [i \in 1..Len(data_regions) |-> data_regions[i][1]]
    /\ gen_store = [k \in {} |-> 0]
    /\ live_memory = [k \in {} |-> 0]
    /\ used_ranges = <<>>
    /\ store_ret = [op |-> "init", args |-> <<>>, result |-> "none", base |-> <<>>]
    /\ calls = 0

\* add_to_mem_store(test_obj)
AddToMemStore ==
    /\ calls < MaxCalls
    /\ \E item \in GenDatas :
        LET out == AddOutcome(Store, item) IN
        /\ gen_store' = out.ms.gen_store
        /\ live_memory' = out.ms.live_memory
        /\ used_ranges' = out.ms.used_ranges
        /\ store_ret' = [op |-> "add_to_mem_store", args |-> item, result |-> out.result,
                         base |-> <<>>]
    /\ calls' = calls + 1
    /\ UNCHANGED <<code_regions, data_regions, data_next, reserver_vars, ret, funnel_vars,
                   loop_vars>>

\* The sum of hi - lo over regions.
RECURSIVE RegionsSize(_, _)
RegionsSize(regions, i) ==
    IF i > Len(regions) THEN 0
    ELSE regions[i][2] - regions[i][1] + RegionsSize(regions, i + 1)

\* reserve_data_region(size, align) as a function of the store: the data
\* regions, the bump cursors and the used ranges it leaves, and how it ends.
ReserveOutcome(dr, dn, used, size, align) ==
    IF dr # <<>>
    THEN [data_regions |-> dr, data_next |-> [i \in 1..Len(dr) |-> dr[i][1]],
          used_ranges |-> used,
          result |-> IF size > RegionsSize(dr, 1) THEN "data_banks_smaller" ELSE "ok"]
    ELSE LET lo == code_regions[Len(code_regions)][1]
             hi == code_regions[Len(code_regions)][2]
             base == (hi - size) - BitAnd(hi - size, align - 1)
         IN IF hi - size < 0 \/ base < lo
            THEN [data_regions |-> dr, data_next |-> dn, used_ranges |-> used,
                  result |-> "no_space"]
            ELSE [data_regions |-> << <<base, base + size>> >>, data_next |-> <<base>>,
                  used_ranges |-> InsertUsedRange(used, base, base + size),
                  result |-> "ok"]

\* reserve_data_region(size, align)
ReserveDataRegion ==
    /\ calls < MaxCalls
    /\ \E a \in ReserveArgs :
        LET out == ReserveOutcome(data_regions, data_next, used_ranges, a.size, a.align) IN
        /\ data_regions' = out.data_regions
        /\ data_next' = out.data_next
        /\ used_ranges' = out.used_ranges
        /\ store_ret' = [op |-> "reserve_data_region", args |-> a, result |-> out.result,
                         base |-> <<>>]
    /\ calls' = calls + 1
    /\ UNCHANGED <<code_regions, gen_store, live_memory, reserver_vars, ret, funnel_vars,
                   loop_vars>>

\* allocate(..., purpose="data"), lines 220-231: the first data region whose
\* aligned cursor leaves room; <<>> when allocate returns None.
DataReserveDefault == 262144
RECURSIVE BumpData(_, _, _, _, _)
BumpData(dr, dn, i, min_size, align) ==
    IF i > Len(dr) THEN [data_next |-> dn, base |-> <<>>]
    ELSE LET addr == AlignUp(dn[i], align) IN
         IF addr + min_size <= dr[i][2]
         THEN [data_next |-> [dn EXCEPT ![i] = addr + min_size], base |-> <<addr>>]
         ELSE BumpData(dr, dn, i + 1, min_size, align)

\* allocate(min_size, align, "data")
AllocateData(a) ==
    LET res == IF data_regions = <<>>
               THEN ReserveOutcome(data_regions, data_next, used_ranges,
                                   DataReserveDefault, a.align)
               ELSE [data_regions |-> data_regions, data_next |-> data_next,
                     used_ranges |-> used_ranges, result |-> "ok"]
        bump == BumpData(res.data_regions, res.data_next, 1, a.min_size, a.align)
    IN /\ data_regions' = res.data_regions
       /\ used_ranges' = res.used_ranges
       /\ data_next' = IF res.result = "ok" THEN bump.data_next ELSE res.data_next
       /\ store_ret' = [op |-> "allocate", args |-> a,
                        result |-> IF res.result = "ok" THEN "returned" ELSE res.result,
                        base |-> IF res.result = "ok" THEN bump.base ELSE <<>>]

\* allocate(min_size, align, "code", pc, min_start, within)
AllocateCode(a) ==
    LET bases == AllocateOutcomes(Store, a.min_size, a.align, a.pc, a.min_start, a.within)
    IN /\ \/ /\ bases = {}
             /\ used_ranges' = used_ranges
             /\ store_ret' = [op |-> "allocate", args |-> a, result |-> "returned",
                              base |-> <<>>]
          \/ \E base \in bases :
             /\ used_ranges' = InsertUsedRange(used_ranges, base, base + a.min_size)
             /\ store_ret' = [op |-> "allocate", args |-> a, result |-> "returned",
                              base |-> <<base>>]
       /\ UNCHANGED <<data_regions, data_next>>

\* allocate(min_size, align, purpose, pc, min_start, within)
Allocate ==
    /\ calls < MaxCalls
    /\ \E a \in AllocateArgs :
        IF a.purpose = "data" THEN AllocateData(a) ELSE AllocateCode(a)
    /\ calls' = calls + 1
    /\ UNCHANGED <<code_regions, gen_store, live_memory, reserver_vars, ret, funnel_vars,
                   loop_vars>>

\* A byte strobe is the tuple of its eight bytes, lowest first; the strobe
\* TibbarMemoryAdapter.store builds for a size: 0xFF, 0xFFFF, 0xFFFF_FFFF or
\* MASK_64_BIT.
StrobeFor(size) == [i \in 1..8 |-> IF i <= size THEN 255 ELSE 0]

\* Mutant: every byte lane counts as enabled.
StrobedAlways(strobe, i) == TRUE

\* (strobe >> (i * 8)) & 0xFF is not zero
Strobed(strobe, i) == strobe[i + 1] # 0

\* write_to_mem_store(addr, data, strobe): the live memory it leaves, and
\* "out_of_range" when the assert of line 313 fails.
WriteOutcome(lm, addr, data, strobe) ==
    LET lanes == {i \in 0..7 : Strobed(strobe, i)}
        max_byte == IF lanes = {} THEN 0 ELSE (CHOOSE i \in lanes : \A j \in lanes : j <= i) + 1
        required == Max(max_byte, 1)
        written == {addr + i : i \in lanes}
    IN IF ~IsValidRange(addr, required)
       THEN [live_memory |-> lm, result |-> "out_of_range"]
       ELSE [live_memory |->
                 [a \in DOMAIN lm \cup written |->
                     IF a \in written THEN ByteOf(data, a - addr) ELSE lm[a]],
             result |-> "ok"]

\* read_from_mem_store(addr, size) for 0 < size <= 8 and a valid range: the
\* bytes at addr .. addr+size-1, the lowest address in the lowest byte, 0
\* for a byte never written.
RECURSIVE ReadFromMemStore(_, _, _)
ReadFromMemStore(lm, addr, size) ==
    IF size = 0 THEN 0
    ELSE (IF addr \in DOMAIN lm THEN lm[addr] ELSE 0)
         + 256 * ReadFromMemStore(lm, addr + 1, size - 1)

\* A caller calls write_to_mem_store(addr, data, strobe) with the strobe of
\* a size, as TibbarMemoryAdapter.store does.
WriteToMemStore ==
    /\ calls < MaxCalls
    /\ \E w \in WriteArgs :
        LET out == WriteOutcome(live_memory, w.addr, w.data, StrobeFor(w.size)) IN
        /\ live_memory' = out.live_memory
        /\ store_ret' = [op |-> "write_to_mem_store", args |-> w, result |-> out.result,
                         base |-> <<>>]
    /\ calls' = calls + 1
    /\ UNCHANGED <<code_regions, data_regions, data_next, gen_store, used_ranges,
                   reserver_vars, ret, funnel_vars, loop_vars>>

\* ---- tibbar/core/tibbar.py ----
\* Mutant: a segment that contains the first byte is enough.
FindSegmentOfStart(segments, addr, size) ==
    \E i \in 1..Len(segments) : segments[i][1] <= addr /\ addr < segments[i][2]

\* AddressSegment.contains over a tuple of segments: find_code_segment,
\* find_data_segment.
FindSegment(segments, addr, size) ==
    \E i \in 1..Len(segments) : segments[i][1] <= addr /\ addr + size <= segments[i][2]

\* AddressMapper.require_store_addr(addr, size) returns addr.
RequireStoreAddr(addr, size) ==
    FindSegment(code_regions, addr, size) \/ FindSegment(data_segments, addr, size)

\* Mutant: every PC of the model is accepted.
ValidateAnyModelPc(model_pc) == TRUE

\* _validate_model_pc_in_code_banks(model_pc) returns model_pc; otherwise it
\* raises the control-flow-escape RuntimeError.
ValidateModelPcInCodeBanks(model_pc) == FindSegment(code_regions, model_pc, 1)

\* MemoryStore.get_free_space(pc_addr)
GetFreeSpace(pc_addr) ==
    LET segs == {i \in 1..Len(code_regions) :
                    code_regions[i][1] <= pc_addr /\ pc_addr < code_regions[i][2]}
        seg_hi == code_regions[CHOOSE i \in segs : \A j \in segs : i <= j][2]
        nexts == {s \in DOMAIN gen_store : pc_addr < s /\ s < seg_hi}
    IN IF segs = {} THEN 0
       ELSE IF \E s \in DOMAIN gen_store : s <= pc_addr /\ pc_addr < s + gen_store[s] THEN 0
       ELSE IF nexts = {} THEN seg_hi - pc_addr
       ELSE (CHOOSE s \in nexts : \A t \in nexts : s <= t) - pc_addr

\* self.free_space_required_to_relocate
free_space_required_to_relocate == 13 * 4

\* x & ~m for m = 3 or m = 7 and x >= 0
ClearLow(x, m) == x - BitAnd(x, m)

\* ---- inputs of the main loop model ----
\* The memory configuration: the code banks, the pure data banks and the
\* data_reserve of the config file; one unified and one separate layout.
TibbarConfigs ==
    { [code_regions |-> << <<0, 64>> >>, data_regions |-> <<>>, data_reserve |-> 8],
      [code_regions |-> << <<0, 64>> >>, data_regions |-> << <<72, 80>> >>,
       data_reserve |-> 8] }
ConfigBoots == {<<>>, <<0>>, <<9>>, <<100>>}
\* What model.execute reports for the instruction at pc: an exception or
\* not, the PC of the model afterwards, and the value of mtvec (<<>> when it
\* cannot be read).
ModelResults(at) ==
    { [exception |-> FALSE, exception_code |-> <<>>, memory_accesses |-> <<>>,
       model_pc |-> n, mtvec |-> <<>>] : n \in {at, at + 4} }
    \cup
    { [exception |-> TRUE, exception_code |-> <<2>>, memory_accesses |-> <<>>,
       model_pc |-> at, mtvec |-> m] : m \in {<<>>, <<43>>, <<102>>} }
\* self.csr_addresses: the names of the CSRs the ISA description gives.
CsrNames == {"mepc", "mcause", "mtval", "mtvec"}
\* The items a generator yields: an instruction of the named sequence for
\* the address addr (<<>> for None).
TestData(name, addr) ==
    [seq |-> name, addr |-> addr, byte_size |-> 4, data |-> 513, ldst_data |-> <<>>,
     ldst_addr |-> <<>>, ldst_size |-> 8]
MainTestDatas ==
    {TestData("Main", a) : a \in {<<>>, <<40>>, <<100>>}}
        \cup {TestData("DefaultProgramEnd", <<>>)}
RelocateTestDatas == {TestData("Relocate", <<>>)}

\* AddressMappers built from segment tuples: adjacent code segments, a code
\* segment with an adjacent data segment, overlapping code segments with an
\* empty data segment.
MapperConfigs ==
    { [code_segments |-> << <<0, 8>>, <<8, 16>> >>, data_segments |-> <<>>],
      [code_segments |-> << <<0, 8>> >>, data_segments |-> << <<8, 12>> >>],
      [code_segments |-> << <<12, 20>>, <<4, 14>> >>, data_segments |-> << <<2, 2>> >>] }

\* AddressMapper(code_segments, data_segments): code_regions holds the code
\* segments of the mapper; there is no MemoryStore call and no create_test.
MapperInit ==
    /\ \E c \in MapperConfigs :
        /\ code_regions = c.code_segments
        /\ data_segments = c.data_segments
    /\ data_regions = <<>>
    /\ data_next = <<>>
    /\ gen_store = [k \in {} |-> 0]
    /\ live_memory = [k \in {} |-> 0]
    /\ used_ranges = <<>>
    /\ store_ret = [op |-> "init", args |-> <<>>, result |-> "none", base |-> <<>>]
    /\ calls = 0
    /\ pc = <<>>
    /\ loop_status = "not_called"
    /\ exit_address = <<>>
    /\ exception_address = <<>>
    /\ gen_left = 0
    /\ relocate_gen = <<>>
    /\ relocating = FALSE
    /\ model_hung_counter = 0
    /\ gen_hung_counter = 0
    /\ cycle_repeat_count = 0
    /\ recent_pcs = <<>>
    /\ last_step = NoStep

\* A caller calls mapper.require_store_addr(addr, size): it returns addr or
\* raises the outside-mapped-banks ValueError.
RequireStoreAddrCall ==
    /\ \E addr \in (0 - 2)..MaxMapperAddr, size \in {1, 4, 8} :
        store_ret' = [op |-> "require_store_addr", args |-> [addr |-> addr, size |-> size],
                      result |-> IF RequireStoreAddr(addr, size) THEN "returned"
                                 ELSE "outside_mapped_banks",
                      base |-> IF RequireStoreAddr(addr, size) THEN <<addr>> ELSE <<>>]
    /\ UNCHANGED <<code_regions, data_regions, data_next, gen_store, live_memory,
                   used_ranges, calls, reserver_vars, ret, funnel_vars, loop_vars>>

\* Tibbar.__init__: the MemoryStore, reserve_data_region(data_reserve) and
\* the AddressMapper; create_test is not yet called.
TibbarInitFrom(configs, gen_items) ==
    /\ \E c \in configs :
        /\ code_regions = NormalizeRegions(c.code_regions, 1, <<>>)
        /\ LET dr == NormalizeRegions(c.data_regions, 1, <<>>)
               out == ReserveOutcome(dr, [i \in 1..Len(dr) |-> dr[i][1]], <<>>,
                                     c.data_reserve, 8)
           IN /\ data_regions = out.data_regions
              /\ data_next = out.data_next
              /\ used_ranges = out.used_ranges
        /\ data_segments = c.data_regions
    /\ gen_store = [k \in {} |-> 0]
    /\ live_memory = [k \in {} |-> 0]
    /\ store_ret = [op |-> "init", args |-> <<>>, result |-> "none", base |-> <<>>]
    /\ calls = 0
    /\ pc = <<>>
    /\ loop_status = "not_called"
    /\ exit_address = <<>>
    /\ exception_address = <<>>
    /\ gen_left \in gen_items
    /\ relocate_gen = <<>>
    /\ relocating = FALSE
    /\ model_hung_counter = 0
    /\ gen_hung_counter = 0
    /\ cycle_repeat_count = 0
    /\ recent_pcs = <<>>
    /\ last_step = NoStep
TibbarInit == TibbarInitFrom(TibbarConfigs, 0..MaxGenItems)

\* Mutant: the used ranges are not looked at.
CheckRegionInBank(addr, byte_size) == IsValidRange(addr, byte_size)

\* check_region_empty(addr, byte_size)
CheckRegionEmpty(addr, byte_size) ==
    /\ IsValidRange(addr, byte_size)
    /\ \A i \in 1..Len(used_ranges) :
           used_ranges[i][2] <= addr \/ used_ranges[i][1] >= addr + byte_size

\* _pick_random_boot: the eligible segments, and the candidates that
\* random.randint can give in segment i, each cleared to a multiple of 8 (none
\* when hi < lo).
EligibleSegments ==
    {i \in 1..Len(code_regions) :
        code_regions[i][2] - code_regions[i][1] >= free_space_required_to_relocate}
RandomBootCandidates(i) ==
    LET lo == ClearLow(code_regions[i][1] + 7, 7)
        hi == ClearLow(code_regions[i][2] - free_space_required_to_relocate, 7)
    IN {ClearLow(r, 7) : r \in lo..hi}

\* create_test, lines 171-207, for the boot of the config (<<>> when the
\* config has none): the ways the setup can end, as the status and the PC it
\* leaves.  Each of the 256 tries of _pick_random_boot can fail.
BootOutcomes(config_boot) ==
    IF config_boot # <<>>
    THEN LET boot_val == ClearLow(config_boot[1], 7) IN
         IF ~FindSegment(code_regions, boot_val, free_space_required_to_relocate)
         THEN {[loop_status |-> "boot_outside_code_banks", pc |-> <<>>]}
         ELSE IF ~CheckRegionEmpty(boot_val, free_space_required_to_relocate)
         THEN {[loop_status |-> "boot_overlaps_reserved", pc |-> <<>>]}
         ELSE {[loop_status |-> "running", pc |-> <<boot_val>>]}
    ELSE IF EligibleSegments = {}
    THEN {[loop_status |-> "no_boot_window", pc |-> <<>>]}
    ELSE {[loop_status |-> "running", pc |-> <<cand>>] :
              cand \in {c \in UNION {RandomBootCandidates(i) : i \in EligibleSegments} :
                           CheckRegionEmpty(c, free_space_required_to_relocate)}}
         \cup
         (IF \E i \in EligibleSegments :
                \/ RandomBootCandidates(i) = {}
                \/ \E cand \in RandomBootCandidates(i) :
                      ~CheckRegionEmpty(cand, free_space_required_to_relocate)
          THEN {[loop_status |-> "no_boot_address", pc |-> <<>>]}
          ELSE {})

\* create_test, lines 158-227: the boot address is validated or picked, the
\* PC is set to it and the main loop is entered.
CreateTestBoot ==
    /\ loop_status = "not_called"
    /\ \E config_boot \in ConfigBoots : \E o \in BootOutcomes(config_boot) :
        /\ loop_status' = o.loop_status
        /\ pc' = o.pc
    /\ UNCHANGED <<store_vars, data_segments, exit_address, exception_address, gen_left,
                   relocate_gen, relocating, model_hung_counter, gen_hung_counter, cycle_repeat_count,
                   recent_pcs, last_step, reserver_vars, ret, funnel_vars>>

\* Mutant: the deque has no maxlen.
DequeAppendUnbounded(d, x, maxlen) == Append(d, x)

\* deque(maxlen).append(x)
DequeAppend(d, x, maxlen) ==
    IF Len(d) < maxlen THEN Append(d, x) ELSE Append(Tail(d), x)

\* poke_csr(address of name, value) when csr_addresses has the name
PokeCsr(csr_names, name, value) ==
    IF name \in csr_names THEN << <<name, value>> >> ELSE <<>>

\* Mutant: the PC is set to mtvec as read.
ApplyTrapToMtvec(csr_names, exception_code, memory_accesses, pc_before_abs, mtvec_val) ==
    [pokes |-> <<>>,
     model_pc |-> IF "mtvec" \in csr_names /\ mtvec_val # <<>> THEN mtvec_val[1] ELSE 0]

\* _apply_trap(exception_code, changes, pc_before_abs): the CSR writes it
\* makes on the model, in order, and the PC it sets on the model.
\* memory_accesses are the addresses of changes.memory_accesses; mtvec_val is
\* what peek_csr returns (<<>> for None).
ApplyTrap(csr_names, exception_code, memory_accesses, pc_before_abs, mtvec_val) ==
    LET mtval == IF memory_accesses # <<>> THEN memory_accesses[1] ELSE 0
    IN [pokes |-> PokeCsr(csr_names, "mepc", pc_before_abs)
                      \o PokeCsr(csr_names, "mcause", exception_code)
                      \o PokeCsr(csr_names, "mtval", mtval),
        model_pc |-> IF "mtvec" \in csr_names /\ mtvec_val # <<>>
                     THEN ClearLow(mtvec_val[1], 3) ELSE 0]

\* Mutant: the self-loop does not record the exit address.
ExitAddressKept(pc_before) == exit_address

\* Lines 282-283: exit_address after the self-loop at pc_before.
ExitAddressAtSelfLoop(pc_before) ==
    IF exit_address = <<>> THEN <<pc_before>> ELSE exit_address

\* Mutant: a step that moves the PC is neither looked up in recent_pcs nor
\* counted.
StepNotCounted(same, model_pc) ==
    [same EXCEPT !.pc = <<model_pc>>, !.gen_hung_counter = 0]

\* Lines 293-303 and 355-356, after a step that moved the PC to model_pc:
\* the accidental-loop detection over recent_pcs, then the counters and the
\* check of model_hung_counter.
StepCounted(same, model_pc) ==
    LET in_recent == \E i \in 1..Len(recent_pcs) : recent_pcs[i] = model_pc
        count == IF in_recent THEN cycle_repeat_count + 1 ELSE 0
    IN IF count > CycleRepeatLimit
       THEN [same EXCEPT !.pc = <<model_pc>>, !.cycle_repeat_count = count,
                         !.loop_status = "hung_in_loop"]
       ELSE [same EXCEPT !.pc = <<model_pc>>, !.cycle_repeat_count = count,
                         !.recent_pcs = DequeAppend(recent_pcs, model_pc, RecentPcsMaxlen),
                         !.gen_hung_counter = 0,
                         !.model_hung_counter = model_hung_counter + 1,
                         !.loop_status = IF model_hung_counter + 1 > ModelHungLimit
                                         THEN "hung_in_loop" ELSE "running"]

\* Lines 230-303 and 350-356 for one result of model.execute: the loop
\* variables the iteration leaves.
ExecutedStep(res) ==
    LET pc_before == pc[1]
        model_pc == IF res.exception
                    THEN ApplyTrap(CsrNames, res.exception_code[1], res.memory_accesses,
                                   pc_before, res.mtvec).model_pc
                    ELSE res.model_pc
        step == [kind |-> "execute", exception |-> res.exception,
                 pc_before |-> <<pc_before>>, model_pc |-> <<model_pc>>]
        same == [pc |-> pc, exit_address |-> exit_address,
                 cycle_repeat_count |-> cycle_repeat_count, recent_pcs |-> recent_pcs,
                 gen_hung_counter |-> gen_hung_counter,
                 model_hung_counter |-> model_hung_counter, last_step |-> step,
                 loop_status |-> "running"]
    IN IF ~IsValidRange(pc_before, 4)
       THEN [same EXCEPT !.loop_status = "read_out_of_range", !.last_step = last_step]
       ELSE IF ~ValidateModelPcInCodeBanks(model_pc)
       THEN [same EXCEPT !.loop_status = "control_flow_escape"]
       ELSE IF model_pc = pc_before
       THEN [same EXCEPT !.pc = <<model_pc>>,
                         !.exit_address = ExitAddressAtSelfLoop(pc_before),
                         !.loop_status = "self_loop_exit"]
       ELSE StepCounted(same, model_pc)

\* One iteration of "while True" with the memory at the PC populated: the
\* instruction is executed on the model.
Execute ==
    /\ loop_status = "running"
    /\ pc[1] \in DOMAIN live_memory
    /\ \E res \in ModelResults(pc[1]) :
        LET out == ExecutedStep(res) IN
        /\ pc' = out.pc
        /\ exit_address' = out.exit_address
        /\ cycle_repeat_count' = out.cycle_repeat_count
        /\ recent_pcs' = out.recent_pcs
        /\ gen_hung_counter' = out.gen_hung_counter
        /\ model_hung_counter' = out.model_hung_counter
        /\ last_step' = out.last_step
        /\ loop_status' = out.loop_status
    /\ UNCHANGED <<store_vars, data_segments, exception_address, gen_left, relocate_gen,
                   relocating, reserver_vars, ret, funnel_vars>>

\* Lines 307-326: what the iteration draws, from the relocate sequence or
\* from the main generator.  A draw names the generators as the iteration
\* leaves them and the item drawn: test_data, or "exhausted" when the main
\* generator raised StopIteration, or "raised" for any other exception.
MainDraws(rg, rel) ==
    IF gen_left = 0
    THEN {[relocate_gen |-> rg, relocating |-> rel, gen_left |-> 0, got |-> "exhausted",
           test_data |-> <<>>]}
    ELSE {[relocate_gen |-> rg, relocating |-> rel, gen_left |-> gen_left - 1,
           got |-> "item", test_data |-> <<t>>] : t \in MainTestDatas}
         \cup
         {[relocate_gen |-> rg, relocating |-> rel, gen_left |-> gen_left - 1,
           got |-> "raised", test_data |-> <<>>]}
\* Mutant: an active relocation is not looked at.
DrawsByFreeSpace ==
    IF GetFreeSpace(pc[1]) <= free_space_required_to_relocate
    THEN UNION { IF n = 0 THEN MainDraws(<<>>, FALSE)
                 ELSE {[relocate_gen |-> <<n - 1>>, relocating |-> TRUE,
                        gen_left |-> gen_left, got |-> "item", test_data |-> <<t>>] :
                          t \in RelocateTestDatas}
                      \cup
                      {[relocate_gen |-> <<n - 1>>, relocating |-> TRUE,
                        gen_left |-> gen_left, got |-> "raised", test_data |-> <<>>]} :
                 n \in IF relocate_gen = <<>> THEN 0..MaxRelocateItems
                       ELSE {relocate_gen[1]} }
    ELSE MainDraws(relocate_gen, relocating)

Draws ==
    IF GetFreeSpace(pc[1]) <= free_space_required_to_relocate \/ relocating
    THEN UNION { IF n = 0 THEN MainDraws(<<>>, FALSE)
                 ELSE {[relocate_gen |-> <<n - 1>>, relocating |-> TRUE,
                        gen_left |-> gen_left, got |-> "item", test_data |-> <<t>>] :
                          t \in RelocateTestDatas}
                      \cup
                      {[relocate_gen |-> <<n - 1>>, relocating |-> TRUE,
                        gen_left |-> gen_left, got |-> "raised", test_data |-> <<>>]} :
                 n \in IF relocate_gen = <<>> THEN 0..MaxRelocateItems
                       ELSE {relocate_gen[1]} }
    ELSE MainDraws(relocate_gen, relocating)

\* Mutant: a placement leaves model_hung_counter as it is.
PlacedStepKeepsModelCounter(test_data) ==
    LET item == IF test_data.addr = <<>> THEN [test_data EXCEPT !.addr = pc] ELSE test_data
        out == AddOutcome(Store, item)
        same == [ms |-> Store, exit_address |-> exit_address,
                 gen_hung_counter |-> gen_hung_counter,
                 model_hung_counter |-> model_hung_counter, loop_status |-> "running"]
    IN IF test_data.addr # <<>> /\ ~RequireStoreAddr(test_data.addr[1], test_data.byte_size)
       THEN [same EXCEPT !.loop_status = "outside_mapped_banks"]
       ELSE IF out.result # "ok"
       THEN [same EXCEPT !.ms = out.ms, !.loop_status = out.result]
       ELSE [same EXCEPT !.ms = out.ms,
                         !.exit_address = IF test_data.seq = "DefaultProgramEnd"
                                          THEN item.addr ELSE @,
                         !.gen_hung_counter = gen_hung_counter + 1,
                         !.loop_status = IF gen_hung_counter + 1 > GenHungLimit
                                         THEN "hung_generator" ELSE "running"]

\* Lines 328-354 for the item drawn: the store, the loop variables and the
\* status the iteration leaves.
PlacedStep(test_data) ==
    LET item == IF test_data.addr = <<>> THEN [test_data EXCEPT !.addr = pc] ELSE test_data
        out == AddOutcome(Store, item)
        same == [ms |-> Store, exit_address |-> exit_address,
                 gen_hung_counter |-> gen_hung_counter,
                 model_hung_counter |-> model_hung_counter, loop_status |-> "running"]
    IN IF test_data.addr # <<>> /\ ~RequireStoreAddr(test_data.addr[1], test_data.byte_size)
       THEN [same EXCEPT !.loop_status = "outside_mapped_banks"]
       ELSE IF out.result # "ok"
       THEN [same EXCEPT !.ms = out.ms, !.loop_status = out.result]
       ELSE [same EXCEPT !.ms = out.ms,
                         !.exit_address = IF test_data.seq = "DefaultProgramEnd"
                                          THEN item.addr ELSE @,
                         !.gen_hung_counter = gen_hung_counter + 1,
                         !.model_hung_counter = 0,
                         !.loop_status = IF gen_hung_counter + 1 > GenHungLimit
                                         THEN "hung_generator" ELSE "running"]

\* One iteration of "while True" with the memory at the PC not populated:
\* an item is drawn and placed.
Place ==
    /\ loop_status = "running"
    /\ pc[1] \notin DOMAIN live_memory
    /\ \E d \in Draws :
        /\ relocate_gen' = d.relocate_gen
        /\ relocating' = d.relocating
        /\ gen_left' = d.gen_left
        /\ IF d.got = "item"
           THEN LET out == PlacedStep(d.test_data[1]) IN
                /\ gen_store' = out.ms.gen_store
                /\ live_memory' = out.ms.live_memory
                /\ used_ranges' = out.ms.used_ranges
                /\ exit_address' = out.exit_address
                /\ gen_hung_counter' = out.gen_hung_counter
                /\ model_hung_counter' = out.model_hung_counter
                /\ loop_status' = out.loop_status
           ELSE /\ loop_status' = IF d.got = "exhausted" THEN "generator_exhausted"
                                  ELSE "generator_raised"
                /\ UNCHANGED <<gen_store, live_memory, used_ranges, exit_address,
                               gen_hung_counter, model_hung_counter>>
    /\ recent_pcs' = <<>>
    /\ cycle_repeat_count' = 0
    /\ last_step' = [NoStep EXCEPT !.kind = "place"]
    /\ UNCHANGED <<code_regions, data_regions, data_next, store_ret, calls, data_segments, pc,
                   exception_address, reserver_vars, ret, funnel_vars>>

\* DefaultProgramStart.gen after its allocate returned exception_base: the
\* item of LoadGPR (one instruction for a base below 0x800), the csrrw to
\* mtvec, and the four instructions of the exception handler at fixed
\* addresses.
StartItems(exception_base) ==
    << TestData("DefaultProgramStart [LoadGPR]", <<>>),
       TestData("DefaultProgramStart", <<>>),
       TestData("Exception handler", <<exception_base>>),
       TestData("Exception handler", <<exception_base + 4>>),
       TestData("Exception handler", <<exception_base + 8>>),
       TestData("Exception handler", <<exception_base + 12>>) >>

\* next(gen) when the generator is DefaultProgramStart.gen: the first call
\* runs allocate(40, purpose="code", min_start=0x100), whose None fails the
\* assert; allocated is the base it returned in this call.
StartMainDraws(rg, rel) ==
    IF gen_left = 0
    THEN {[relocate_gen |-> rg, relocating |-> rel, gen_left |-> 0, got |-> "exhausted",
           test_data |-> <<>>, allocated |-> <<>>]}
    ELSE IF exception_address = <<>>
    THEN LET bases == AllocateOutcomes(Store, 40, 8, <<>>, <<256>>, <<>>) IN
         IF bases = {}
         THEN {[relocate_gen |-> rg, relocating |-> rel, gen_left |-> gen_left - 1,
                got |-> "raised", test_data |-> <<>>, allocated |-> <<>>]}
         ELSE {[relocate_gen |-> rg, relocating |-> rel, gen_left |-> gen_left - 1,
                got |-> "item", test_data |-> <<StartItems(b)[1]>>,
                allocated |-> <<b>>] : b \in bases}
    ELSE LET items == StartItems(exception_address[1]) IN
         {[relocate_gen |-> rg, relocating |-> rel, gen_left |-> gen_left - 1,
           got |-> "item", test_data |-> <<items[Len(items) - gen_left + 1]>>,
           allocated |-> <<>>]}

\* Lines 307-326 with DefaultProgramStart.gen as the generator.
StartDraws ==
    IF GetFreeSpace(pc[1]) <= free_space_required_to_relocate \/ relocating
    THEN UNION { IF n = 0 THEN StartMainDraws(<<>>, FALSE)
                 ELSE {[relocate_gen |-> <<n - 1>>, relocating |-> TRUE,
                        gen_left |-> gen_left, got |-> "item", test_data |-> <<t>>,
                        allocated |-> <<>>] : t \in RelocateTestDatas}
                      \cup
                      {[relocate_gen |-> <<n - 1>>, relocating |-> TRUE,
                        gen_left |-> gen_left, got |-> "raised", test_data |-> <<>>,
                        allocated |-> <<>>]} :
                 n \in IF relocate_gen = <<>> THEN 0..MaxRelocateItems
                       ELSE {relocate_gen[1]} }
    ELSE StartMainDraws(relocate_gen, relocating)

\* One iteration of "while True" with the memory at the PC not populated and
\* the start sequence as the generator: the block allocate returned in
\* next(gen) is in used_ranges besides what add_to_mem_store inserted.
PlaceStart ==
    /\ loop_status = "running"
    /\ pc[1] \notin DOMAIN live_memory
    /\ \E d \in StartDraws :
        /\ relocate_gen' = d.relocate_gen
        /\ relocating' = d.relocating
        /\ gen_left' = d.gen_left
        /\ exception_address' = IF d.allocated # <<>> THEN d.allocated
                                ELSE exception_address
        /\ IF d.got = "item"
           THEN LET out == PlacedStep(d.test_data[1]) IN
                /\ gen_store' = out.ms.gen_store
                /\ live_memory' = out.ms.live_memory
                /\ used_ranges' = IF d.allocated # <<>>
                                  THEN InsertUsedRange(out.ms.used_ranges, d.allocated[1],
                                                       d.allocated[1] + 40)
                                  ELSE out.ms.used_ranges
                /\ exit_address' = out.exit_address
                /\ gen_hung_counter' = out.gen_hung_counter
                /\ model_hung_counter' = out.model_hung_counter
                /\ loop_status' = out.loop_status
           ELSE /\ loop_status' = IF d.got = "exhausted" THEN "generator_exhausted"
                                  ELSE "generator_raised"
                /\ UNCHANGED <<gen_store, live_memory, used_ranges, exit_address,
                               gen_hung_counter, model_hung_counter>>
    /\ recent_pcs' = <<>>
    /\ cycle_repeat_count' = 0
    /\ last_step' = [NoStep EXCEPT !.kind = "place"]
    /\ UNCHANGED <<code_regions, data_regions, data_next, store_ret, calls, data_segments, pc,
                   reserver_vars, ret, funnel_vars>>

\* No Reserver has been built.
NoReserver ==
    /\ all_resources = {}
    /\ unassigned = {}
    /\ exclusive = EmptyDict
    /\ shared = EmptyDict
    /\ shared_refcount = EmptyDict
    /\ ret = [op |-> "init", result |-> "none"]

\* Reserver.__init__
ReserverInit ==
    /\ all_resources \in Spaces
    /\ unassigned = all_resources
    /\ exclusive = EmptyDict
    /\ shared = EmptyDict
    /\ shared_refcount = EmptyDict
    /\ ret = [op |-> "init", result |-> "none"]

\* A caller calls reserver.request(sequence_id, requests).
Request ==
    \E sequence_id \in SeqIds, requests \in RequestDicts :
        \E o \in RequestOutcomes(Self, sequence_id, requests) :
            /\ Install(o.state)
            /\ ret' = [op |-> "request", result |-> o.result]
            /\ UNCHANGED all_resources
            /\ UNCHANGED <<funnel_vars, machine_vars>>

\* A caller calls reserver.release(sequence_id).
Release ==
    \E sequence_id \in SeqIds :
        /\ Install(ReleaseOutcome(Self, sequence_id))
        /\ ret' = [op |-> "release", result |-> "none"]
        /\ UNCHANGED all_resources
        /\ UNCHANGED <<funnel_vars, machine_vars>>

\* The Reserver under direct calls.
Init == ReserverInit /\ NoFunnel /\ NoMachine
Next == Request \/ Release
Spec == Init /\ [][Next]_vars

\* One RoundRobinFunnel drained by its consumer, over its own Reserver.
InitFunnel == ReserverInit /\ FunnelInit /\ NoMachine
NextFunnel == FunnelInvalidRequest \/ FunnelBlocked \/ FunnelYield \/ FunnelExhausted
SpecFunnel == InitFunnel /\ [][NextFunnel]_vars

\* Sequences only: the producers of ProducerConfigs that are sequences whose
\* request names resources or is the two-register request.
SequenceConfigs ==
    {c \in ProducerConfigs :
        /\ ~IsFunnel(c)
        /\ c.requests # [exclusive |-> <<<<"slot", "GPR", 1>>>>, shared |-> <<>>]}

\* A funnel of sequences over a reserver, with a consumer that keeps calling
\* next() until gen ends.
InitFunnelDrained ==
    /\ ReserverInit
    /\ producers \in UNION {[1..n -> SequenceConfigs] : n \in 0..MaxProducers}
    /\ has_reserver = TRUE
    /\ GenStart
    /\ NoMachine
SpecFunnelDrained == InitFunnelDrained /\ [][NextFunnel]_vars /\ WF_vars(NextFunnel)

\* The same funnel, where a sequence may also ask for ResourceId("FPR", 0)
\* shared and nothing else: a resource that one of the Spaces does not list.
SharedFprConfigs ==
    [kind : {"sequence"},
     requests : {[exclusive |-> <<>>, shared |-> <<<<"id", "FPR", 0>>>>]},
     items : 0..MaxItems]
InitFunnelShared ==
    /\ ReserverInit
    /\ producers \in UNION {[1..n -> SequenceConfigs \cup SharedFprConfigs] :
                                n \in 0..MaxProducers}
    /\ has_reserver = TRUE
    /\ GenStart
    /\ NoMachine
SpecFunnelShared == InitFunnelShared /\ [][NextFunnel]_vars

\* Sequences with the default requests or the request of ExampleGPRSequence.
RoundRobinConfigs ==
    [kind : {"sequence"},
     requests : {NoRequests, [exclusive |-> <<<<"id", "GPR", 1>>>>, shared |-> <<>>]},
     items : 0..MaxItems]

\* A funnel of up to MaxRoundRobin sequences, none of them with an invalid
\* request, drained by its consumer.
InitRoundRobin ==
    /\ ReserverInit
    /\ producers \in UNION {[1..n -> RoundRobinConfigs] : n \in 0..MaxRoundRobin}
    /\ has_reserver \in BOOLEAN
    /\ ~has_reserver => all_resources = {GPR0, GPR1, FPR0}
    /\ GenStart
    /\ NoMachine
NextRoundRobin == FunnelBlocked \/ FunnelYield \/ FunnelExhausted
SpecRoundRobin == InitRoundRobin /\ [][NextRoundRobin]_vars

\* The same funnel with sequences whose gen() may raise and a consumer that
\* may stop early.
NextFunnelAbrupt ==
    \/ FunnelInvalidRequest \/ FunnelBlocked \/ FunnelYield \/ FunnelExhausted
    \/ FunnelSequenceRaises \/ FunnelClose \/ FunnelFinalize
SpecFunnelAbrupt == InitFunnelDrained /\ [][NextFunnelAbrupt]_vars

\* A MemoryStore under any calls of add_to_mem_store, allocate and
\* reserve_data_region; no reserver call and no funnel.
InitStore == NoReserver /\ NoFunnel /\ StoreInit /\ NoLoop
NextStore == AddToMemStore \/ Allocate \/ ReserveDataRegion
SpecStore == InitStore /\ [][NextStore]_vars

\* The live memory of a MemoryStore under writes of the memory adapter.
NextWrite == WriteToMemStore
SpecWrite == InitStore /\ [][NextWrite]_vars

\* Tibbar.create_test: the boot and the iterations of the main loop, under
\* every result of the model and every item of the generators.
InitLoop == NoReserver /\ NoFunnel /\ TibbarInit
NextLoop == CreateTestBoot \/ Execute \/ Place
SpecLoop == InitLoop /\ [][NextLoop]_vars
\* The loop is not suspended forever: create_test runs on until it returns
\* or raises.
SpecLoopFair == SpecLoop /\ WF_vars(NextLoop)

\* create_test over one code bank of 128 bytes, where a relocation can move
\* the PC to an address with more than free_space_required_to_relocate bytes
\* free.
RelocateConfigs ==
    { [code_regions |-> << <<0, 128>> >>, data_regions |-> << <<136, 144>> >>,
       data_reserve |-> 8] }
InitRelocate == NoReserver /\ NoFunnel /\ TibbarInitFrom(RelocateConfigs, 0..MaxGenItems)
SpecRelocate == InitRelocate /\ [][NextLoop]_vars

\* create_test over one bank of 512 bytes for code and data, with the start
\* sequence DefaultProgramStart as the whole generator.
StartConfigs ==
    { [code_regions |-> << <<0, 512>> >>, data_regions |-> <<>>, data_reserve |-> 8] }
InitStart ==
    NoReserver /\ NoFunnel /\ TibbarInitFrom(StartConfigs, {Len(StartItems(0))})
NextStart == CreateTestBoot \/ Execute \/ PlaceStart
SpecStart == InitStart /\ [][NextStart]_vars

\* create_test in unified mode: one bank of 120 bytes whose last 64 bytes
\* are the data window, and a main generator of five items.
UnifiedConfigs ==
    { [code_regions |-> << <<0, 120>> >>, data_regions |-> <<>>, data_reserve |-> 64] }
InitUnified == NoReserver /\ NoFunnel /\ TibbarInitFrom(UnifiedConfigs, {5})
SpecUnified == InitUnified /\ [][NextLoop]_vars

\* An AddressMapper under require_store_addr calls.
InitMapper == NoReserver /\ NoFunnel /\ MapperInit
NextMapper == RequireStoreAddrCall
SpecMapper == InitMapper /\ [][NextMapper]_vars

\* The MemoryStore of a Tibbar, on which __init__ has called
\* reserve_data_region(data_reserve), under allocate and reserve_data_region
\* calls.
NextArena == Allocate \/ ReserveDataRegion
SpecArena == InitLoop /\ [][NextArena]_vars

\* ---- the claims about the Reserver ----

Holders(r) ==
    {s \in DOMAIN exclusive : r \in exclusive[s]} \cup {s \in DOMAIN shared : r \in shared[s]}
SharedHolders(r) == {s \in DOMAIN shared : r \in shared[s]}
HoldsNothing(sid) == sid \notin DOMAIN exclusive /\ sid \notin DOMAIN shared

ExclusiveOf(r) == [exclusive |-> <<<<"id", r[1], r[2]>>>>, shared |-> <<>>]
SharedOf(r) == [exclusive |-> <<>>, shared |-> <<<<"id", r[1], r[2]>>>>]
ExclusiveTwice(r) ==
    [exclusive |-> <<<<"id", r[1], r[2]>>, <<"id", r[1], r[2]>>>>, shared |-> <<>>]

Granted(sid, requests) ==
    \A out \in RequestOutcomes(Self, sid, requests) : out.result = "claim"
Refused(sid, requests) ==
    \A out \in RequestOutcomes(Self, sid, requests) : out.result = "none"

\* C1: the exclusive holds of different sequence ids are pairwise disjoint,
\* and no exclusively held resource is in any sequence's shared hold.
C1_ExclusiveDisjoint ==
    /\ \A s1, s2 \in DOMAIN exclusive :
            s1 # s2 => exclusive[s1] \cap exclusive[s2] = {}
    /\ \A s1 \in DOMAIN exclusive, s2 \in DOMAIN shared :
            exclusive[s1] \cap shared[s2] = {}

\* Two sequences hold exclusively while one of them also holds a shared resource.
C1_Witness ==
    /\ Cardinality(DOMAIN exclusive) >= 2
    /\ DOMAIN shared # {}
    /\ ret.op = "request" /\ ret.result = "claim"

\* C2: ("GPR", 0) is in no sequence's exclusive hold and in no shared hold.
C2_ZeroRegNeverHeld ==
    ZERO_REG \notin ExclusiveHolds(Self) \cup SharedHolds(Self)

\* C3: a request that returns None or raises ReservationError leaves
\* unassigned, the exclusive and shared holds and the refcounts as they were.
C3_AllOrNothing ==
    [][(ret'.op = "request" /\ ret'.result \in {"none", "error"})
            => UNCHANGED reserver_vars]_vars

\* A request has just returned None while other sequences hold resources.
C3_Witness ==
    /\ ret.op = "request" /\ ret.result = "none"
    /\ DOMAIN exclusive # {} /\ DOMAIN shared # {}

\* C5 as stated: for every r of the resource space and every sequence id
\* holding nothing, Exclusive r is granted iff nobody holds r, and Shared r is
\* granted iff nobody holds r exclusively.
C5_GrantIffFree_AnyResource ==
    \A sid \in SeqIds, r \in all_resources :
        HoldsNothing(sid) =>
            /\ Granted(sid, ExclusiveOf(r)) <=> Holders(r) = {}
            /\ Granted(sid, SharedOf(r)) <=> r \notin ExclusiveHolds(Self)

\* C5 amended: the same for every r of the resource space other than
\* ("GPR", 0); a request that is not granted returns None.  Holding in every
\* reachable state, it covers the state after the conflicting holders released.
C5_GrantIffFree ==
    \A sid \in SeqIds, r \in all_resources \ {ZERO_REG} :
        HoldsNothing(sid) =>
            /\ Granted(sid, ExclusiveOf(r)) <=> Holders(r) = {}
            /\ Refused(sid, ExclusiveOf(r)) <=> Holders(r) # {}
            /\ Granted(sid, SharedOf(r)) <=> r \notin ExclusiveHolds(Self)
            /\ Refused(sid, SharedOf(r)) <=> r \in ExclusiveHolds(Self)

\* A release has just freed a resource that a sequence holding nothing can
\* now be granted exclusively, while another resource is still shared by a
\* sequence: Exclusive is refused for it and Shared is granted.
C5_Witness ==
    /\ ret.op = "release"
    /\ \E sid \in SeqIds, r1, r2 \in all_resources \ {ZERO_REG} :
        /\ HoldsNothing(sid)
        /\ Holders(r1) = {} /\ Granted(sid, ExclusiveOf(r1))
        /\ SharedHolders(r2) # {}
        /\ Refused(sid, ExclusiveOf(r2)) /\ Granted(sid, SharedOf(r2))

RECURSIVE SlotCounts(_, _)
SlotCounts(reqs, i) ==
    IF i > Len(reqs) THEN 0
    ELSE (IF IsResourceId(reqs[i]) THEN 0 ELSE reqs[i][3]) + SlotCounts(reqs, i + 1)

DistinctIds(reqs) ==
    {ResourceIdOf(reqs[i]) : i \in {j \in 1..Len(reqs) : IsResourceId(reqs[j])}}

\* The resources of namespace ns that nobody holds.
FreeIn(ns) == {r \in all_resources : r[1] = ns /\ Holders(r) = {}}

\* C7: every Exclusive ResourceSlot(ns, n) of a granted request gets n
\* resources of ns that nobody held and that no earlier entry of the request
\* picked, so the granted exclusive set has as many elements as the distinct
\* ResourceIds plus the sum of the slot counts; and a request whose slots ask
\* for more free resources of a namespace than remain returns None.
C7_SlotsPickDistinct ==
    \A sid \in SeqIds, requests \in RequestDicts :
        (HoldsNothing(sid) /\ requests.shared = <<>>) =>
            \A out \in RequestOutcomes(Self, sid, requests) :
                /\ out.result = "claim" =>
                    Cardinality(out.claim_exclusive) =
                        Cardinality(DistinctIds(requests.exclusive))
                            + SlotCounts(requests.exclusive, 1)
                /\ (\E ns \in {"GPR", "FPR"} :
                        Cardinality(FreeIn(ns)) <
                            Cardinality({r \in DistinctIds(requests.exclusive) : r[1] = ns})
                                + SlotCounts(SelectSeq(requests.exclusive,
                                        LAMBDA q : ~IsResourceId(q) /\ q[2] = ns), 1))
                    => out.result # "claim"

\* C8: a resource of the space is in unassigned iff no sequence holds it,
\* exclusively or shared.
C8_UnassignedIffFree ==
    \A r \in all_resources : r \in unassigned <=> Holders(r) = {}

\* Resources are held in both modes and another has been returned by a release.
C8_Witness ==
    /\ ret.op = "release"
    /\ ExclusiveHolds(Self) # {} /\ SharedHolds(Self) # {}
    /\ unassigned # {} /\ unassigned # all_resources

RefcountOf(r) == IF r \in DOMAIN shared_refcount THEN shared_refcount[r] ELSE 0

\* C9: shared_refcount[r] > 0 iff r is in some sequence's shared hold, and it
\* is then the number of sequences whose shared hold contains r; the dict has
\* no entry of 0.
C9_RefcountCountsHolders ==
    /\ \A r \in Universe :
        /\ RefcountOf(r) > 0 <=> SharedHolders(r) # {}
        /\ RefcountOf(r) = Cardinality(SharedHolders(r))
    /\ \A r \in DOMAIN shared_refcount : shared_refcount[r] > 0

\* A request has just been granted with one resource shared by two sequences
\* and another by one, a third being back in unassigned.
C9_Witness ==
    /\ \E r \in Universe : RefcountOf(r) = 2
    /\ \E r \in Universe : RefcountOf(r) = 1
    /\ unassigned # {}
    /\ ret = [op |-> "request", result |-> "claim"]

\* C25: two runs with the same seed and the same memory configuration make
\* the same choices at every step.  Reserver.request draws nothing from the
\* seeded generator, so the runs agree on the reservation picks only if the
\* reserver's state and the request leave one outcome.
C25_SamePicksInEveryRun ==
    \A sid \in SeqIds, requests \in RequestDicts :
        Cardinality(RequestOutcomes(Self, sid, requests)) <= 1

\* C35: after any requests and releases every resource a sequence holds,
\* exclusively or shared, and every resource of the unassigned set is a
\* member of all_resources; a Shared request naming a ResourceId outside the
\* resource space is not granted.
C35_HoldsWithinSpace ==
    /\ ExclusiveHolds(Self) \subseteq all_resources
    /\ SharedHolds(Self) \subseteq all_resources
    /\ unassigned \subseteq all_resources
    /\ DOMAIN shared_refcount \subseteq all_resources

\* ---- the claims about RoundRobinFunnel ----

\* The funnel is about to start (reserve for) the sequence at pos.
AboutToReserve ==
    /\ status = "running"
    /\ Cur.it = "None"
    /\ ~IsFunnel(CurProducer)
    /\ Reserves(CurProducer)

\* C4: a request naming ResourceId ("GPR", 0), Exclusive or Shared, by a
\* sequence id holding nothing raises ReservationError; the funnel that gets
\* it when starting a sequence stops with the invalid-resource-request error,
\* having yielded nothing for it, calls the reserver for that sequence once
\* only, and takes no step after the error.
C4_ZeroRegIsFatal ==
    [][/\ \A sid \in 0..(sequence_id_counter + 1) :
            ~AlreadyAllocated(Self, sid) =>
                \A o \in RequestOutcomes(Self, sid, ExclusiveOf(ZERO_REG))
                        \cup RequestOutcomes(Self, sid, SharedOf(ZERO_REG)) :
                    o.result = "error"
       /\ (AboutToReserve /\ NamesZeroReg(CurProducer.requests)) =>
            /\ status' = "invalid_request"
            /\ ret' = [op |-> "request", result |-> "error"]
            /\ yielded' = yielded
       /\ \A p \in 1..Len(producers) :
            NamesZeroReg(producers[p].requests) => attempts'[p] <= 1
       /\ status # "invalid_request"]_vars

\* The funnel stopped on the invalid request of its second sequence after
\* the first had been granted its claim and had yielded.
C4_Witness ==
    /\ status = "invalid_request"
    /\ ret = [op |-> "request", result |-> "error"]
    /\ yielded # <<>>
    /\ ExclusiveHolds(Self) # {}
    /\ \E p \in 1..Len(producers) :
        NamesZeroReg(producers[p].requests) /\ attempts[p] = 1

\* C10: in any n*k consecutive yielded items during which the same n
\* producers are the started ones and the list active is the same (none
\* starts, ends or is popped), each of the n producers has exactly k items.
C10_SteadyStateFair ==
    \A i \in 1..Len(yielded), k \in 1..Len(yielded) :
        LET S == yielded[i].running
            j == i + Cardinality(S) * k - 1
        IN (/\ j <= Len(yielded)
            /\ \A m \in i..j : yielded[m].running = S
            /\ \A m \in i..j : yielded[m].listed = yielded[i].listed) =>
            \A p \in S : Cardinality({m \in i..j : yielded[m].producer = p}) = k

\* Two started producers have yielded two consecutive items.
C10_Witness ==
    \E i \in 1..Len(yielded) :
        /\ i + 1 <= Len(yielded)
        /\ Cardinality(yielded[i].running) = 2
        /\ yielded[i + 1].running = yielded[i].running

\* The number of items of producer p among the first n yielded.
YieldedBy(p, n) == Cardinality({m \in 1..n : yielded[m].producer = p})

\* C11: the funnel visits its active producers cyclically in index order
\* with at most one item each per round, and after an exhausted producer is
\* dropped the next one visited is the one that followed it: between two
\* items of one producer, every other producer that was started before the
\* first of them, is still active at the second and has items left to
\* yield, has yielded an item.
C11_OneItemEachPerRound ==
    \A i, j \in 1..Len(yielded) :
        (i < j /\ yielded[i].producer = yielded[j].producer) =>
            \A q \in (yielded[i].running \cap yielded[j].running) \ {yielded[i].producer} :
                YieldedBy(q, j) < producers[q].items =>
                    \E m \in (i + 1)..(j - 1) : yielded[m].producer = q

\* Both producers of the funnel are sequences asking for Exclusive ("GPR", 1).
SameExclusive ==
    /\ has_reserver
    /\ Len(producers) = 2
    /\ \A p \in 1..2 :
            ~IsFunnel(producers[p]) /\ producers[p].requests = ExclusiveOf(GPR1)

\* All the items of every producer have been yielded and gen has returned.
Complete ==
    /\ status = "done"
    /\ \A p \in 1..Len(producers) : YieldedBy(p, Len(yielded)) = producers[p].items

\* C12: of two sequences asking for the same Exclusive resource, the second
\* yields only after the first has yielded all its items and has been
\* dropped; until it is granted it is asked for once in every round, that is
\* once after each item of the first, and once more when it is granted; the
\* cannot-progress error is not raised, and in the end gen returns having
\* yielded every item of both.
C12_SecondRunsAfterFirst ==
    /\ [](SameExclusive =>
            /\ \A m \in 1..Len(yielded) :
                    yielded[m].producer = 2 =>
                        /\ YieldedBy(1, m) = producers[1].items
                        /\ 1 \notin yielded[m].listed
            /\ IF 2 \in Listed(active) \ Running(active)
               THEN /\ attempts[2] <= YieldedBy(1, Len(yielded))
                    /\ attempts[2] >= YieldedBy(1, Len(yielded)) - 1
               ELSE attempts[2] = producers[1].items + 1
            /\ status \in {"running", "done"})
    /\ <>(SameExclusive => Complete)

\* Both sequences have yielded two items, the second after being refused twice.
C12_Witness ==
    /\ SameExclusive
    /\ Complete
    /\ Len(yielded) = 4
    /\ attempts[2] = 3
    /\ unassigned = all_resources

\* Every producer left in list is a sequence that has not been started and
\* whose request the reserver refuses as it stands.
EveryProducerBlocked(list) ==
    /\ list # <<>>
    /\ \A i \in 1..Len(list) :
            /\ list[i].it = "None"
            /\ ~IsFunnel(producers[list[i].producer])
            /\ Reserves(producers[list[i].producer])
            /\ Refused(sequence_id_counter, producers[list[i].producer].requests)

\* C14: the cannot-progress error is raised only when every producer left
\* is blocked on its reservation, and whenever every producer left is
\* blocked the funnel raises it instead of retrying for ever.
C14_BlockedRoundRaises ==
    /\ [](status = "cannot_progress" => EveryProducerBlocked(active))
    /\ ((status = "running" /\ EveryProducerBlocked(active))
            ~> status = "cannot_progress")

\* The error was raised after a producer had yielded and had been dropped.
C14_Witness ==
    /\ status = "cannot_progress"
    /\ yielded # <<>>
    /\ \A i \in 1..Len(active) : attempts[active[i].producer] >= 2

\* gen has ended and no _gen_with_release generator is left suspended.
AllFinalised == status # "running" /\ Unfinished(active) = {}

\* C13: release is called at most once for the sequence id of a claim, only
\* in a step in which its sequence is found exhausted or in which the stream
\* has ended abruptly (the sequence raised, or gen was ended by an error or
\* closed by its consumer), with the claim held until then; and once gen has
\* ended and its generators are finalised it has been called exactly once
\* for every claim obtained.
C13_ReleasedExactlyOnce ==
    [][/\ \A sid \in DOMAIN released' :
            /\ released'[sid] <= 1
            /\ released'[sid] = 0 => ~HoldsNothing(sid)'
            /\ (released'[sid] = 1 /\ (sid \notin DOMAIN released \/ released[sid] = 0)) =>
                    \/ status' \in {"raised", "closed", "invalid_request"}
                    \/ /\ Cur.left = 0
                       /\ Len(active') = Len(active) - 1
                       /\ Cur.sid \in {sid, -1}
       /\ AllFinalised' => \A sid \in DOMAIN released' : released'[sid] = 1]_vars

\* The consumer closed gen after one sequence had been exhausted and while
\* another held its claim: both claims have been released once.
C13_Witness ==
    /\ status = "closed"
    /\ active = <<>>
    /\ ret = [op |-> "release", result |-> "none"]
    /\ Cardinality(DOMAIN released) >= 2
    /\ \A sid \in DOMAIN released : released[sid] = 1
    /\ unassigned = all_resources

\* What the reserver holds under sid, as a claim.
HeldUnder(sid) ==
    [exclusive |-> IF sid \in DOMAIN exclusive THEN exclusive[sid] ELSE {},
     shared |-> IF sid \in DOMAIN shared THEN shared[sid] ELSE {}]

\* The sequences of the funnel that declare requests.
Declares(i) == ~IsFunnel(producers[i]) /\ producers[i].requests # NoRequests

\* C34: in a funnel with a reserver, a sequence that declares requests has
\* yielded an item only after a request of its own was granted, and while its
\* stream is open (it has been started and has not ended) its
\* reservation_claim is the claim the reserver holds under its sequence id.
C34_ClaimHeldWhileStreaming ==
    has_reserver =>
        /\ \A k \in 1..Len(yielded) :
               Declares(yielded[k].producer) =>
                   /\ attempts[yielded[k].producer] >= 1
                   /\ \A i \in 1..Len(active) :
                          active[i].producer = yielded[k].producer =>
                              active[i].it # "None"
        /\ \A i \in 1..Len(active) :
               (active[i].it = "generator" /\ Declares(active[i].producer)) =>
                   /\ active[i].sid >= 0
                   /\ reservation_claim[active[i].producer] = HeldUnder(active[i].sid)
                   /\ ~HoldsNothing(active[i].sid)
\* A sequence has yielded all its items and still holds its claim, while
\* another has been refused.
C34_Witness ==
    /\ has_reserver /\ status = "running"
    /\ \E i \in 1..Len(active) :
           /\ active[i].it = "generator" /\ active[i].left = 0
           /\ Declares(active[i].producer)
           /\ ~HoldsNothing(active[i].sid)
    /\ \E i \in 1..Len(active) : active[i].it = "None" /\ attempts[active[i].producer] >= 1

\* The reserver as Reserver.__init__ leaves it over the same resource space.
ReserverAtInit == ReserverState(all_resources, EmptyDict, EmptyDict, EmptyDict)

\* C39: when gen of a funnel with a reserver has finished with every producer
\* exhausted, the reserver is as it was constructed: every resource of the
\* space unassigned and nothing else, no exclusive or shared holds, no
\* refcounts.
C39_ReserverBackToInitial ==
    (has_reserver /\ status = "done") => Self = ReserverAtInit

\* Every sequence's request is granted by the reserver as constructed,
\* whatever sequence id it is made under.
GrantedWhenEmpty ==
    \A p \in 1..Len(producers) :
        Reserves(producers[p]) =>
            \A o \in RequestOutcomes(ReserverAtInit, 0, producers[p].requests) :
                o.result = "claim"

\* A started sequence that is still in active holds a claim.
SomeStartedHolds ==
    \E i \in 1..Len(active) :
        /\ active[i].it = "generator"
        /\ active[i].sid >= 0
        /\ ~HoldsNothing(active[i].sid)

\* C40: in a funnel of sequences over its own reserver, when every
\* sequence's request is granted by the reserver as constructed, gen never
\* raises the cannot-progress (or the invalid-request) error, a sequence is
\* refused only while a started sequence of the funnel that has not been
\* dropped holds a claim, and in the end gen returns having yielded every
\* item of every sequence.
C40_GrantableNeverStuck ==
    /\ [](GrantedWhenEmpty =>
            /\ status \in {"running", "done"}
            /\ ret = [op |-> "request", result |-> "none"] => SomeStartedHolds)
    /\ <>(GrantedWhenEmpty => Complete)

\* gen returned after two sequences had yielded all their items, one of them
\* having been refused while the other held its claim.
C40_Witness ==
    /\ GrantedWhenEmpty
    /\ Complete
    /\ Len(producers) = 2
    /\ \A p \in 1..2 : producers[p].items > 0 /\ attempts[p] >= 1
    /\ \E p \in 1..2 : attempts[p] >= 2
    /\ Self = ReserverAtInit

\* ---- MemoryStore claims ----
RangesOverlap(a1, n1, a2, n2) == ~(a1 + n1 <= a2 \/ a1 >= a2 + n2)

\* C18: after any sequence of add_to_mem_store calls, failed calls included,
\* no two placed items overlap and every placed item's range [addr,
\* addr+byte_size) lies inside one mapped code or data bank.
C18_PlacedItemsDisjointInBanks ==
    \A a \in DOMAIN gen_store :
        /\ IsValidRange(a, gen_store[a])
        /\ \A b \in DOMAIN gen_store \ {a} :
               ~RangesOverlap(a, gen_store[a], b, gen_store[b])

\* C36: an add_to_mem_store call that fails leaves the placed items, the
\* live bytes and used_ranges as they were before the call.
C36_AddAtomicOnFailure ==
    [][(calls' = calls + 1 /\ store_ret'.op = "add_to_mem_store"
            /\ store_ret'.result # "ok") =>
          UNCHANGED <<gen_store, live_memory, used_ranges>>]_vars

\* The last call was a code-purpose allocate that returned a base.
AllocatedCode ==
    /\ store_ret.op = "allocate"
    /\ store_ret.args.purpose = "code"
    /\ store_ret.base # <<>>

\* C19: a code-purpose allocate call that returns a base returns a multiple
\* of align, with [base, base+min_size) inside a single code segment and
\* overlapping no range that used_ranges held before the call; after the call
\* used_ranges covers that range.
C19_AllocatedBlockAlignedAndFree ==
    [][(calls' = calls + 1 /\ AllocatedCode') =>
        LET base == store_ret'.base[1]
            n == store_ret'.args.min_size
        IN /\ base % store_ret'.args.align = 0
           /\ InRegions(code_regions, base, n)
           /\ \A i \in 1..Len(used_ranges) :
                  ~RangesOverlap(base, n, used_ranges[i][1],
                                 used_ranges[i][2] - used_ranges[i][1])
           /\ \E i \in 1..Len(used_ranges') :
                  used_ranges'[i][1] <= base /\ base + n <= used_ranges'[i][2]
      ]_vars

\* C20: a code-purpose allocate call that returns a base returns
\* base >= min_start when min_start is given, and a base in
\* [pc+min_off, pc+max_off] when within=(min_off, max_off) is given together
\* with pc, also when the search is repeated without pc.
C20_AllocatedBlockRespectsFilters ==
    AllocatedCode =>
        LET a == store_ret.args
            base == store_ret.base[1]
        IN /\ a.min_start # <<>> => base >= a.min_start[1]
           /\ (a.within # <<>> /\ a.pc # <<>>) =>
                  /\ a.pc[1] + a.within[1] <= base
                  /\ base <= a.pc[1] + a.within[2]

\* The aligned bases at which a code block of a's min_size is free, inside
\* one code segment and inside a's min_start and within filters (the window
\* of within is [pc+min_off, pc+max_off], defined when pc is given).
FreeAlignedBases(a) ==
    {base \in UNION {code_regions[i][1]..code_regions[i][2] : i \in 1..Len(code_regions)} :
        /\ base % a.align = 0
        /\ InRegions(code_regions, base, a.min_size)
        /\ \A i \in 1..Len(used_ranges) :
               ~RangesOverlap(base, a.min_size, used_ranges[i][1],
                              used_ranges[i][2] - used_ranges[i][1])
        /\ a.min_start # <<>> => base >= a.min_start[1]
        /\ (a.within # <<>> /\ a.pc # <<>>) =>
               /\ a.pc[1] + a.within[1] <= base
               /\ base + a.min_size - 1 <= a.pc[1] + a.within[2]}

\* C21: a code-purpose allocate finds a block whenever one exists: when some
\* aligned base is free, inside a code segment and inside the min_start and
\* within filters, the call does not return None, and when the within window
\* has room for exactly one such base the call returns it.
C21_AllocateFindsBlock ==
    \A a \in {x \in AllocateArgs : x.purpose = "code"} :
        LET bases == FreeAlignedBases(a)
            returned == AllocateOutcomes(Store, a.min_size, a.align, a.pc, a.min_start,
                                         a.within)
        IN /\ bases # {} => returned # {}
           /\ (a.within # <<>> /\ a.pc # <<>> /\ Cardinality(bases) = 1) =>
                  returned = bases

\* v mod 2^(8*size) for 0 <= v < 2^31
LowBytes(v, size) == IF size >= 4 THEN v ELSE v % (256 ^ size)

\* C22: a write of v at an in-bank range with the strobe of a size in
\* {1, 2, 4, 8} succeeds, a read of that size at the same address then returns
\* v mod 2^(8*size), and the write changes no byte outside [addr, addr+size).
C22_WriteThenRead ==
    [][(calls' = calls + 1 /\ store_ret'.op = "write_to_mem_store") =>
        LET w == store_ret'.args
            outside == {a \in DOMAIN live_memory \cup DOMAIN live_memory' :
                           a < w.addr \/ a >= w.addr + w.size}
        IN /\ IsValidRange(w.addr, w.size) <=> store_ret'.result = "ok"
           /\ store_ret'.result = "ok" =>
                  ReadFromMemStore(live_memory', w.addr, w.size) = LowBytes(w.data, w.size)
           /\ \A a \in outside :
                  /\ a \in DOMAIN live_memory /\ a \in DOMAIN live_memory'
                  /\ live_memory'[a] = live_memory[a]
      ]_vars
\* A two-byte write of a value of four bytes has gone into a memory that
\* holds other bytes next to it.
C22_Witness ==
    /\ store_ret.op = "write_to_mem_store" /\ store_ret.result = "ok"
    /\ store_ret.args.size = 2 /\ store_ret.args.data > 65535
    /\ \E a \in DOMAIN live_memory :
           a = store_ret.args.addr + 2 /\ live_memory[a] # 0

\* C23: once reserve_data_region(n) has been called, a further
\* reserve_data_region(m) with m <= n leaves the data arena, its bump cursors
\* and used_ranges as they were, so that no data block handed out by
\* allocate(purpose=data) is handed out again.
C23_ReserveIdempotent ==
    [][(/\ calls' = calls + 1
        /\ store_ret'.op = "reserve_data_region"
        /\ data_regions # <<>>
        /\ store_ret'.args.size <= RegionsSize(data_regions, 1))
            => UNCHANGED <<data_regions, data_next, used_ranges>>]_vars

\* ---- the claims about AddressMapper ----
\* The bytes of the segment <<lo, hi>>.
SegmentBytes(seg) == seg[1]..(seg[2] - 1)
MapperSegments ==
    {code_regions[i] : i \in 1..Len(code_regions)}
        \cup {data_segments[i] : i \in 1..Len(data_segments)}

\* C24: require_store_addr(a, k) returns a if and only if one segment among
\* the code and data segments holds every byte of [a, a+k); otherwise it
\* fails with the outside-mapped-banks error, also when the bytes of the range
\* lie in two adjacent segments.
C24_RequireStoreAddr ==
    store_ret.op = "require_store_addr" =>
        LET a == store_ret.args.addr
            k == store_ret.args.size
            contained == \E seg \in MapperSegments : a..(a + k - 1) \subseteq SegmentBytes(seg)
        IN IF contained
           THEN store_ret.result = "returned" /\ store_ret.base = <<a>>
           ELSE store_ret.result = "outside_mapped_banks" /\ store_ret.base = <<>>
\* A range whose bytes are all mapped, but in no single segment, was rejected.
C24_Witness ==
    /\ store_ret.op = "require_store_addr"
    /\ store_ret.result = "outside_mapped_banks"
    /\ \A b \in store_ret.args.addr..(store_ret.args.addr + store_ret.args.size - 1) :
           \E seg \in MapperSegments : b \in SegmentBytes(seg)

\* ---- the claims about the main loop of create_test ----
\* C15: at every iteration of the main loop the PC lies in a configured code
\* segment; the PC the model reports after a step or a trap redirect is
\* checked, and when it lies in no code segment the control-flow-escape error
\* ends create_test with that step as its last one: nothing is placed or
\* executed after it.
C15_PcStaysInCodeBanks ==
    /\ loop_status = "running" => pc # <<>>
    /\ pc # <<>> => FindSegment(code_regions, pc[1], 1)
    /\ loop_status = "control_flow_escape" <=>
           /\ last_step.kind = "execute"
           /\ ~FindSegment(code_regions, last_step.model_pc[1], 1)
\* A trap redirect has taken the PC of the model out of the code banks after
\* an item was placed.
C15_Witness ==
    /\ loop_status = "control_flow_escape"
    /\ last_step.exception
    /\ DOMAIN gen_store # {}

\* create_test returned normally.
ReturnedNormally == loop_status \in {"self_loop_exit", "generator_exhausted"}
\* The last iteration executed an instruction that left the PC unchanged.
LastStepSelfLoop ==
    /\ last_step.kind = "execute"
    /\ last_step.model_pc = last_step.pc_before
    /\ pc = last_step.pc_before

\* C16: whenever create_test returns normally, the last model step executed
\* an instruction that left the PC unchanged (the exit self-loop) and
\* exit_address is set.
C16_ReturnsOnlyAfterSelfLoop ==
    ReturnedNormally => LastStepSelfLoop /\ exit_address # <<>>

\* C16, amended: whenever create_test returns normally, either the last
\* model step left the PC unchanged and exit_address is set, or the last
\* iteration found the memory at the PC unpopulated and the main generator
\* exhausted.
C16_ReturnsAfterSelfLoopOrExhaustion ==
    /\ loop_status = "self_loop_exit" => LastStepSelfLoop /\ exit_address # <<>>
    /\ loop_status = "generator_exhausted" =>
           /\ last_step.kind = "place"
           /\ gen_left = 0
           /\ pc[1] \notin DOMAIN live_memory
\* create_test has returned at the self-loop of a program of more than one
\* placed item.
C16_Witness ==
    /\ loop_status = "self_loop_exit"
    /\ exit_address = pc
    /\ Cardinality(DOMAIN gen_store) > 1

\* create_test has set the boot address and has not yet run an iteration of
\* the main loop: the PC is boot_address.
AfterSetup == loop_status = "running" /\ last_step = NoStep
\* The window of 13 instructions at boot lies in one code segment and
\* overlaps no used range.
BootWindowFree(boot) ==
    /\ \E i \in 1..Len(code_regions) :
           boot..(boot + 51) \subseteq code_regions[i][1]..(code_regions[i][2] - 1)
    /\ \A i \in 1..Len(used_ranges) :
           ~RangesOverlap(boot, 52, used_ranges[i][1], used_ranges[i][2] - used_ranges[i][1])

TrapInputs ==
    [csr_names : {CsrNames, CsrNames \ {"mtvec"}, {"mtvec", "mcause"}},
     exception_code : {2, 5},
     memory_accesses : {<<>>, <<24>>, <<30, 8>>},
     mtvec_val : {<<>>, <<0>>, <<43>>, <<102>>}]

\* C27: for a step that reports exception code e at pc_before, the loop
\* writes pc_before to mepc, then e to mcause, then the first reported
\* memory-access address (0 when there is none) to mtval, each when the ISA
\* description names the CSR, and sets the PC to mtvec with its two low bits
\* cleared (0 when mtvec cannot be read); the new PC is validated against the
\* code segments and a failure is the control-flow-escape error.
C27_TrapRedirect ==
    /\ (loop_status = "running" /\ pc[1] \in DOMAIN live_memory) =>
           \A t \in TrapInputs :
               LET out == ApplyTrap(t.csr_names, t.exception_code, t.memory_accesses,
                                    pc[1], t.mtvec_val)
                   writes == << <<"mepc", pc[1]>>, <<"mcause", t.exception_code>>,
                                <<"mtval", IF Len(t.memory_accesses) = 0 THEN 0
                                           ELSE Head(t.memory_accesses)>> >>
                   Known(w) == w[1] \in t.csr_names
               IN /\ out.pokes = SelectSeq(writes, Known)
                  /\ out.model_pc =
                         IF "mtvec" \in t.csr_names /\ t.mtvec_val # <<>>
                         THEN t.mtvec_val[1] - (t.mtvec_val[1] % 4) ELSE 0
    /\ (last_step.kind = "execute" /\ last_step.exception) =>
           IF FindSegment(code_regions, last_step.model_pc[1], 1)
           THEN pc = last_step.model_pc /\ loop_status # "control_flow_escape"
           ELSE pc = last_step.pc_before /\ loop_status = "control_flow_escape"
\* A trap at a placed instruction has redirected the PC to mtvec & ~3 inside
\* the code bank, and the loop runs on.
C27_Witness ==
    /\ last_step.kind = "execute" /\ last_step.exception
    /\ loop_status = "running"
    /\ pc = <<40>>

\* C28: when the main loop ends because a model step left the PC unchanged,
\* exit_address is the address of that self-looping instruction, the
\* termination PC, whatever items were placed before.
C28_ExitAddressIsTerminationPc ==
    loop_status = "self_loop_exit" =>
        exit_address = pc /\ exit_address = last_step.pc_before

\* A loop iteration that placed an item (lines 341-348 ran), and one whose
\* model step moved the PC and passed the accidental-loop detection (lines
\* 302-303 ran).
PlacementStep == loop_status = "running" /\ gen_store' # gen_store
ModelStep ==
    /\ loop_status = "running" /\ pc # <<>> /\ pc' # pc
    /\ loop_status' \in {"running", "hung_in_loop"}
    /\ cycle_repeat_count' <= CycleRepeatLimit

\* The two counters count the consecutive steps of their kind: a placement
\* adds one to gen_hung_counter and resets model_hung_counter, a model step
\* adds one to model_hung_counter and resets gen_hung_counter, and no other
\* step changes either; so one of them is always 0.
CountersCount ==
    /\ PlacementStep =>
           gen_hung_counter' = gen_hung_counter + 1 /\ model_hung_counter' = 0
    /\ ModelStep =>
           model_hung_counter' = model_hung_counter + 1 /\ gen_hung_counter' = 0
    /\ ~PlacementStep /\ ~ModelStep =>
           UNCHANGED <<gen_hung_counter, model_hung_counter>>
    /\ gen_hung_counter' = 0 \/ model_hung_counter' = 0

\* C29 as stated: the counters count the consecutive placements and the
\* consecutive model steps, each reset by a step of the other kind, so at
\* most one is non-zero; the hung-generator error is raised exactly when
\* gen_hung_counter exceeds its limit and the hung-in-loop error exactly when
\* model_hung_counter exceeds its limit.
C29_StallExactlyByCounters ==
    [][/\ CountersCount
       /\ (loop_status' = "hung_generator") <=> (gen_hung_counter' > GenHungLimit)
       /\ (loop_status' = "hung_in_loop") <=> (model_hung_counter' > ModelHungLimit)]_vars

\* C29, amended: the same, except that the hung-in-loop error is raised
\* exactly when model_hung_counter exceeds its limit or the accidental-loop
\* detection has counted more repeats than its own limit.
C29_StallByCountersOrCycle ==
    [][/\ CountersCount
       /\ (loop_status' = "hung_generator") <=> (gen_hung_counter' > GenHungLimit)
       /\ (loop_status' = "hung_in_loop") <=>
              \/ model_hung_counter' > ModelHungLimit
              \/ cycle_repeat_count' > CycleRepeatLimit]_vars
\* The hung-in-loop error raised by the counter of model steps alone.
C29_Witness ==
    /\ loop_status = "hung_in_loop"
    /\ model_hung_counter > ModelHungLimit
    /\ cycle_repeat_count <= CycleRepeatLimit
    /\ gen_hung_counter = 0

\* The last n elements of the sequence q (all of it when it has fewer).
LastOf(q, n) == IF Len(q) <= n THEN q ELSE SubSeq(q, Len(q) - n + 1, Len(q))

\* C30: a model step that moves the PC looks the new PC up among the PCs
\* recorded since the last placement, of which only the last RecentPcsMaxlen
\* are kept: when it is among them cycle_repeat_count goes up by one, and the
\* hung-in-loop error is raised when it exceeds CycleRepeatLimit; when it is
\* not, the count goes back to 0; unless the error is raised the new PC is
\* recorded.  Every iteration that places (or fails to draw) an item clears
\* the recorded PCs and the count.
C30_CycleDetection ==
    [][/\ (loop_status = "running" /\ pc # <<>> /\ pc' # pc) =>
             LET hit == \E i \in 1..Len(recent_pcs) : recent_pcs[i] = pc'[1] IN
             /\ hit => cycle_repeat_count' = cycle_repeat_count + 1
             /\ ~hit => cycle_repeat_count' = 0
             /\ cycle_repeat_count' > CycleRepeatLimit =>
                    loop_status' = "hung_in_loop" /\ recent_pcs' = recent_pcs
             /\ cycle_repeat_count' <= CycleRepeatLimit =>
                    recent_pcs' = LastOf(Append(recent_pcs, pc'[1]), RecentPcsMaxlen)
       /\ (loop_status = "running" /\ pc # <<>> /\ pc[1] \notin DOMAIN live_memory) =>
             recent_pcs' = <<>> /\ cycle_repeat_count' = 0]_vars
\* A repeat counted, below the limit, with the window of recorded PCs full.
C30_Witness ==
    /\ loop_status = "running"
    /\ cycle_repeat_count = 1
    /\ Len(recent_pcs) = RecentPcsMaxlen
    /\ \E i \in 1..Len(recent_pcs) : <<recent_pcs[i]>> = pc

SegmentsOf(a) ==
    {i \in 1..Len(code_regions) : code_regions[i][1] <= a /\ a < code_regions[i][2]}
ItemsAbove(a, hi) == {t \in DOMAIN gen_store : a < t /\ t < hi}

\* C32: get_free_space(pc) is 0 when pc lies in no code segment or the byte
\* at pc is populated; otherwise it is the distance from pc to the start of
\* the nearest placed item above pc in the code segment of pc, or to the end
\* of that segment when no item lies above.
C32_FreeSpace ==
    \A a \in (0 - 1)..40 :
        IF SegmentsOf(a) = {} \/ a \in DOMAIN live_memory
        THEN GetFreeSpace(a) = 0
        ELSE \E i \in SegmentsOf(a) :
                LET hi == code_regions[i][2] IN
                IF ItemsAbove(a, hi) = {} THEN GetFreeSpace(a) = hi - a
                ELSE /\ a + GetFreeSpace(a) \in ItemsAbove(a, hi)
                     /\ \A t \in ItemsAbove(a, hi) : a + GetFreeSpace(a) <= t

\* The bytes of a list of ranges [lo, hi), and of the placed items of a
\* _gen_store.
BytesOf(ranges) == UNION {ranges[i][1]..(ranges[i][2] - 1) : i \in 1..Len(ranges)}
ItemBytes(gs) == UNION {a..(a + gs[a] - 1) : a \in DOMAIN gs}

\* What one MemoryStore call adds to the used bytes: the items it placed, the
\* block a code-purpose allocate returned, and the data window carved from
\* the last code region when there was no data region.
AddedBytes ==
    (ItemBytes(gen_store') \ ItemBytes(gen_store))
    \cup (IF store_ret'.op = "allocate" /\ store_ret'.args.purpose = "code"
              /\ store_ret'.base # <<>>
          THEN store_ret'.base[1]..(store_ret'.base[1] + store_ret'.args.min_size - 1)
          ELSE {})
    \cup (IF data_regions' # data_regions THEN BytesOf(data_regions') ELSE {})

\* C33: after every allocate, reserve_data_region and add_to_mem_store call
\* used_ranges is sorted by start, its ranges are non-empty, disjoint and not
\* adjacent (merged), and its bytes are the bytes used before the call
\* together with what the call placed, allocated as code or carved as the
\* data window; so the union is that of all items, code allocations and the
\* data window.
C33_UsedRangesMergedUnion ==
    [][/\ \A i \in 1..Len(used_ranges') : used_ranges'[i][1] < used_ranges'[i][2]
       /\ \A i \in 1..(Len(used_ranges') - 1) :
              used_ranges'[i][2] < used_ranges'[i + 1][1]
       /\ BytesOf(used_ranges') = BytesOf(used_ranges) \cup AddedBytes
       /\ ItemBytes(gen_store') \subseteq BytesOf(used_ranges')]_vars
\* A placed item and an allocated block or the data window were merged into
\* one used range.
C33_Witness ==
    /\ calls = MaxCalls
    /\ Len(used_ranges) = 1
    /\ gen_store # <<>>
    /\ ItemBytes(gen_store) # BytesOf(used_ranges)

\* C37: the block a code-purpose allocate hands out in the main loop does
\* not overlap the 52 bytes at the boot address while they are unpopulated
\* (the start sequence allocates in the first iteration, with the PC at the
\* boot address), and add_to_mem_store in the main loop never fails with an
\* overlap.
C37_BootWindowNotHandedOut ==
    [][/\ (exception_address = <<>> /\ exception_address' # <<>>) =>
              ~RangesOverlap(exception_address'[1], 40,
                             pc[1], free_space_required_to_relocate)
       /\ loop_status' # "already_in_use"]_vars

\* C38: in unified mode (the mapper has no data segment) no iteration of the
\* main loop places an item at the PC when the PC lies in the data window
\* that reserve_data_region carved from the last code region.
C38_NoCodeInDataWindow ==
    [][(data_segments = <<>> /\ loop_status = "running" /\ pc # <<>>
            /\ pc[1] \notin DOMAIN gen_store /\ pc[1] \in DOMAIN gen_store') =>
          pc[1] \notin BytesOf(data_regions)]_vars

\* The ways the main loop ends: the two normal terminations and the fatal
\* errors (an exception of a generator, such as the funnel's cannot-progress
\* error, is "generator_raised").
MainLoopEnds ==
    {"self_loop_exit", "generator_exhausted", "hung_in_loop", "hung_generator",
     "generator_raised", "control_flow_escape", "already_in_use", "outside_mapped_banks"}

\* C17: with a finite main generator and finite relocate sequences, the main
\* loop always ends, in a normal termination or in one of the fatal errors;
\* no run goes on placing and executing forever.
C17_MainLoopEnds == (loop_status = "running") ~> (loop_status \in MainLoopEnds)
\* A run that went round placed instructions through a trap redirect has been
\* ended by the accidental-loop detection.
C17_Witness ==
    /\ loop_status = "hung_in_loop"
    /\ last_step.kind = "execute" /\ last_step.exception
    /\ cycle_repeat_count > CycleRepeatLimit
====
